---- MODULE Spec2Model ----
(***************************************************************************)
(* Product Query Normalizer: parse -> detect ambiguities -> clarify ->     *)
(* validate, as implemented in src/Product_Query_Normalizer.               *)
(*                                                                         *)
(* Representation choices                                                  *)
(*  - A query text is a sequence of text fragments joined by single        *)
(*    spaces.  Substring tests of the parser are decided per fragment by   *)
(*    the tables SUBSTRINGS / PREFIXES / PRICE_MATCHES, which list what    *)
(*    Python's `in`, str.startswith and re.findall give on each fragment.  *)
(*  - Prices are floats in the code.  Here a price is an integer number of *)
(*    tenths of a currency unit, so that value * 0.7 is exact: a mention   *)
(*    of v is stored as 10 * v and 0.7 * v as 7 * v.                       *)
(*  - Confidence scores are in units of 1/1200, so that the mean of up to  *)
(*    four scores given in hundredths is exact (0.65 is 780).              *)
(*  - Optional[X] is a sequence of length at most one: <<>> is None.       *)
(*  - Error and warning messages carry their interpolated values as record *)
(*    fields instead of formatted text.                                    *)
(***************************************************************************)
EXTENDS Integers, Sequences, FiniteSets, TLC

\* ------------------------------------------------------------------ bounds
\* largest number of fragments in a query text
MaxLen == 3

\* largest number of questions asked of the Stock_alert tool
MaxTurns == 2

\* largest number of messages kept by the Mental Wellness Bot
MaxMessages == 2

\* largest number of update calls on a ConversationState
MaxUpdates == 3

\* ------------------------------------------------------- generic helpers
None == <<>>

Some(x) == <<x>>

Range(s) == {s[i] : i \in DOMAIN s}

SetMin(S) == CHOOSE x \in S : \A y \in S : x <= y

\* mutant of SetMax: the first element of the sorted list, not the last
SetMax_First(S) == CHOOSE x \in S : \A y \in S : x <= y

SetMax(S) == CHOOSE x \in S : \A y \in S : x >= y

RECURSIVE SumSeq(_)
SumSeq(s) == IF s = <<>> THEN 0 ELSE Head(s) + SumSeq(Tail(s))

RECURSIVE SeqsUpTo(_, _)
SeqsUpTo(S, n) ==
    IF n = 0 THEN {<<>>}
    ELSE LET shorter == SeqsUpTo(S, n - 1)
         IN  shorter \cup {Append(s, x) : s \in {t \in shorter : Len(t) = n - 1}, x \in S}

\* all orderings of a finite set, as sequences without repetition
Orderings(S) ==
    {s \in [1..Cardinality(S) -> S] : \A i, j \in 1..Cardinality(S) : i # j => s[i] # s[j]}

\* ----------------------------------------------------------- schemas.py
ProductTypeEnum ==
    <<"headphones", "earbuds", "speakers", "microphone", "camera",
      "laptop", "phone", "tablet", "watch", "unknown">>

UsageContextEnum ==
    <<"gym", "office", "home", "outdoor", "travel", "gaming",
      "professional", "casual", "unknown">>

\* mutant of PriceRange: the bounds are not validated at construction
PriceRange_Unvalidated(min_price, max_price) ==
    [exc |-> "none",
     value |-> Some([min_price |-> min_price, max_price |-> max_price])]

\* PriceRange(min_price=.., max_price=..): Field(ge=0) on both bounds and the
\* max_price validator; pydantic raises ValidationError (a ValueError)
PriceRange(min_price, max_price) ==
    IF min_price < 0 \/ max_price < 0 \/ max_price < min_price
    THEN [exc |-> "ValidationError", value |-> None]
    ELSE [exc |-> "none",
          value |-> Some([min_price |-> min_price, max_price |-> max_price])]

\* ------------------------------------------------------------- parser.py
PRODUCT_KEYWORDS ==
    << [product |-> "headphones",
        keywords |-> <<"headphones", "headphone", "over-ear", "over ear", "on-ear">>],
       [product |-> "earbuds",
        keywords |-> <<"earbuds", "earbud", "buds", "tws", "true wireless", "airpods">>],
       [product |-> "speakers",
        keywords |-> <<"speaker", "speakers", "bluetooth speaker", "portable speaker">>],
       [product |-> "microphone",
        keywords |-> <<"microphone", "mic", "studio mic", "condenser">>],
       [product |-> "camera",
        keywords |-> <<"camera", "dslr", "mirrorless", "action camera", "gopro">>],
       [product |-> "laptop",
        keywords |-> <<"laptop", "notebook", "macbook", "gaming laptop">>],
       [product |-> "phone",
        keywords |-> <<"phone", "smartphone", "mobile", "iphone", "android">>],
       [product |-> "tablet",
        keywords |-> <<"tablet", "ipad", "galaxy tab">>],
       [product |-> "watch",
        keywords |-> <<"watch", "smartwatch", "fitness watch", "wearable">>] >>

CONTEXT_KEYWORDS ==
    << [context |-> "gym",
        keywords |-> <<"gym", "workout", "exercise", "fitness", "running", "jogging", "sports">>],
       [context |-> "office",
        keywords |-> <<"office", "work", "meeting", "conference", "calls", "professional">>],
       [context |-> "home",
        keywords |-> <<"home", "house", "living room", "bedroom", "domestic">>],
       [context |-> "outdoor",
        keywords |-> <<"outdoor", "outdoors", "outside", "hiking", "camping", "trail">>],
       [context |-> "travel",
        keywords |-> <<"travel", "trip", "journey", "commute", "plane", "flight">>],
       [context |-> "gaming",
        keywords |-> <<"gaming", "game", "esports", "competitive", "fps", "moba">>],
       [context |-> "professional",
        keywords |-> <<"professional", "studio", "recording", "streaming", "podcast", "content">>] >>

FEATURE_KEYWORDS ==
    <<"waterproof", "water resistant", "dust proof", "ip67", "ip68",
      "noise-cancelling", "noise cancelling", "anc", "active noise",
      "wireless", "bluetooth", "wired", "usb-c", "usb c",
      "long battery", "battery life", "fast charging",
      "lightweight", "portable", "compact",
      "comfortable", "ergonomic", "fit",
      "premium", "wireless charging", "touch control",
      "3d audio", "surround", "bass boost", "eq">>

\* The text fragments queries are built from, as the user types them.
Fragments ==
    {"Best headphones", "laptop", "around 4k", "rs 100000", "fitness", "for gym"}

Queries == SeqsUpTo(Fragments, MaxLen)

\* str.lower() on a fragment
Lower(f) ==
    CASE f = "Best headphones" -> "best headphones"
      [] OTHER                 -> f

\* keywords of the three tables that occur as a substring of a lower-cased fragment
SUBSTRINGS(f) ==
    CASE f = "best headphones" -> {"headphones", "headphone", "phone"}
      [] f = "laptop"          -> {"laptop"}
      [] f = "fitness"         -> {"fitness", "fit"}
      [] f = "for gym"         -> {"gym"}
      [] OTHER                 -> {}

\* product keywords a lower-cased fragment starts with
PREFIXES(f) ==
    CASE f = "laptop" -> {"laptop"}
      [] OTHER        -> {}

\* re.findall of the i-th PRICE_PATTERNS entry on a lower-cased fragment,
\* each match already passed through float(match.replace(",", "").replace(".", ""))
PRICE_MATCHES(f) ==
    CASE f = "around 4k" -> << {4}, {}, {}, {}, {} >>
      [] f = "rs 100000" -> << {}, {}, {100000}, {}, {} >>
      [] OTHER           -> << {}, {}, {}, {}, {} >>

\* text.lower().strip() : the fragments carry no outer whitespace
normalize_text(text) == [i \in DOMAIN text |-> Lower(text[i])]

\* `keyword in normalized`
Occurs(keyword, normalized) ==
    \E i \in DOMAIN normalized : keyword \in SUBSTRINGS(normalized[i])

\* `keyword == normalized or normalized.startswith(keyword)`
StartsWith(keyword, normalized) ==
    normalized # <<>> /\ keyword \in PREFIXES(normalized[1])

\* positions <<category index, keyword index>> of the table in iteration order
KeywordBefore(a, b) == a[1] < b[1] \/ (a[1] = b[1] /\ a[2] < b[2])

\* mutant of extract_product_type: the keyword that appears first in the text wins
extract_product_type_TextOrder(query) ==
    LET normalized == normalize_text(query)
        hits == {p \in {<<c, k>> : c \in DOMAIN PRODUCT_KEYWORDS, k \in 1..6} :
                    /\ p[2] \in DOMAIN PRODUCT_KEYWORDS[p[1]].keywords
                    /\ Occurs(PRODUCT_KEYWORDS[p[1]].keywords[p[2]], normalized)}
        at(p) == CHOOSE i \in DOMAIN normalized :
                    /\ PRODUCT_KEYWORDS[p[1]].keywords[p[2]] \in SUBSTRINGS(normalized[i])
                    /\ \A j \in 1..(i - 1) :
                          PRODUCT_KEYWORDS[p[1]].keywords[p[2]]
                              \notin SUBSTRINGS(normalized[j])
    IN  IF hits = {} THEN [product_type |-> "unknown", confidence |-> 30]
        ELSE LET first == CHOOSE p \in hits :
                              \A o \in hits : \/ o = p
                                              \/ at(p) < at(o)
                                              \/ (at(p) = at(o) /\ KeywordBefore(p, o))
                 keyword == PRODUCT_KEYWORDS[first[1]].keywords[first[2]]
             IN  [product_type |-> PRODUCT_KEYWORDS[first[1]].product,
                  confidence |-> IF StartsWith(keyword, normalized) THEN 95 ELSE 85]

extract_product_type(query) ==
    LET normalized == normalize_text(query)
        hits == {p \in {<<c, k>> : c \in DOMAIN PRODUCT_KEYWORDS, k \in 1..6} :
                    /\ p[2] \in DOMAIN PRODUCT_KEYWORDS[p[1]].keywords
                    /\ Occurs(PRODUCT_KEYWORDS[p[1]].keywords[p[2]], normalized)}
    IN  IF hits = {} THEN [product_type |-> "unknown", confidence |-> 30]
        ELSE LET first == CHOOSE p \in hits : \A o \in hits : o = p \/ KeywordBefore(p, o)
                 keyword == PRODUCT_KEYWORDS[first[1]].keywords[first[2]]
             IN  [product_type |-> PRODUCT_KEYWORDS[first[1]].product,
                  confidence |-> IF StartsWith(keyword, normalized) THEN 95 ELSE 85]

\* mutant of extract_price_range: a single price is both bounds of the range
extract_price_range_SingleAsBoth(query) ==
    LET normalized == normalize_text(query)
        prices == UNION {PRICE_MATCHES(normalized[i])[p] :
                            i \in DOMAIN normalized, p \in 1..5}
    IN  IF prices = {} THEN [price_range |-> None, confidence |-> 0]
        ELSE IF Cardinality(prices) = 1
        THEN LET max_price == SetMin(prices)
             IN  [price_range |-> PriceRange(10 * max_price, 10 * max_price).value,
                  confidence |-> 75]
        ELSE [price_range |-> PriceRange(10 * SetMin(prices), 10 * SetMax(prices)).value,
              confidence |-> 85]

extract_price_range(query) ==
    LET normalized == normalize_text(query)
        prices == UNION {PRICE_MATCHES(normalized[i])[p] :
                            i \in DOMAIN normalized, p \in 1..5}
    IN  IF prices = {} THEN [price_range |-> None, confidence |-> 0]
        ELSE IF Cardinality(prices) = 1
        THEN LET max_price == SetMin(prices)
             IN  [price_range |-> PriceRange(7 * max_price, 10 * max_price).value,
                  confidence |-> 75]
        ELSE [price_range |-> PriceRange(10 * SetMin(prices), 10 * SetMax(prices)).value,
              confidence |-> 85]

\* contexts in table order; the code returns list(set(contexts)), whose order
\* is fixed by the caller (see Parse)
extract_usage_context(query) ==
    LET normalized == normalize_text(query)
        hit(c) == \E k \in DOMAIN CONTEXT_KEYWORDS[c].keywords :
                      Occurs(CONTEXT_KEYWORDS[c].keywords[k], normalized)
        contexts == SelectSeq([c \in DOMAIN CONTEXT_KEYWORDS |-> c], hit)
    IN  [contexts |-> [i \in DOMAIN contexts |-> CONTEXT_KEYWORDS[contexts[i]].context],
         confidence |-> IF contexts = <<>> THEN 0
                        ELSE (85 * Len(contexts)) \div Len(contexts)]

\* mutant of extract_features: the confidence is 0.0 whether or not a feature
\* was found
extract_features_NoConfidence(query) ==
    LET normalized == normalize_text(query)
        hit(feature) == Occurs(feature, normalized)
        features == SelectSeq(FEATURE_KEYWORDS, hit)
    IN  [features |-> features, confidence |-> 0]

extract_features(query) ==
    LET normalized == normalize_text(query)
        hit(feature) == Occurs(feature, normalized)
        features == SelectSeq(FEATURE_KEYWORDS, hit)
    IN  [features |-> features, confidence |-> IF features # <<>> THEN 80 ELSE 0]

\* mutant of parse_in_order: an empty feature list is not reported as missing
parse_in_order_FeaturesNeverMissing(query, contexts) ==
    LET product == extract_product_type(query)
        price   == extract_price_range(query)
        context == extract_usage_context(query)
        feature == extract_features(query)
        confidences ==
            <<product.confidence>>
            \o (IF price.price_range # None THEN <<price.confidence>> ELSE <<>>)
            \o (IF contexts # <<>> THEN <<context.confidence>> ELSE <<>>)
            \o (IF feature.features # <<>> THEN <<feature.confidence>> ELSE <<>>)
        missing_fields ==
            (IF product.product_type = "unknown" THEN <<"product_type">> ELSE <<>>)
            \o (IF price.price_range = None THEN <<"price_range">> ELSE <<>>)
            \o (IF contexts = <<>> THEN <<"usage_context">> ELSE <<>>)
    IN  [product_type        |-> product.product_type,
         price_range         |-> price.price_range,
         usage_context       |-> contexts,
         feature_preferences |-> feature.features,
         original_query      |-> query,
         confidence_score    |-> (12 * SumSeq(confidences)) \div Len(confidences),
         is_complete         |-> missing_fields = <<>>,
         missing_fields      |-> missing_fields]

\* mutant of parse_in_order: the mean is taken over all four sub-scores
parse_in_order_MeanOfFour(query, contexts) ==
    LET product == extract_product_type(query)
        price   == extract_price_range(query)
        context == extract_usage_context(query)
        feature == extract_features(query)
        confidences ==
            <<product.confidence, price.confidence, context.confidence,
              feature.confidence>>
        missing_fields ==
            (IF product.product_type = "unknown" THEN <<"product_type">> ELSE <<>>)
            \o (IF price.price_range = None THEN <<"price_range">> ELSE <<>>)
            \o (IF contexts = <<>> THEN <<"usage_context">> ELSE <<>>)
            \o (IF feature.features = <<>> THEN <<"feature_preferences">> ELSE <<>>)
    IN  [product_type        |-> product.product_type,
         price_range         |-> price.price_range,
         usage_context       |-> contexts,
         feature_preferences |-> feature.features,
         original_query      |-> query,
         confidence_score    |-> (12 * SumSeq(confidences)) \div Len(confidences),
         is_complete         |-> missing_fields = <<>>,
         missing_fields      |-> missing_fields]

\* parse with the usage contexts listed in the given order
parse_in_order(query, contexts) ==
    LET product == extract_product_type(query)
        price   == extract_price_range(query)
        context == extract_usage_context(query)
        feature == extract_features(query)
        confidences ==
            <<product.confidence>>
            \o (IF price.price_range # None THEN <<price.confidence>> ELSE <<>>)
            \o (IF contexts # <<>> THEN <<context.confidence>> ELSE <<>>)
            \o (IF feature.features # <<>> THEN <<feature.confidence>> ELSE <<>>)
        missing_fields ==
            (IF product.product_type = "unknown" THEN <<"product_type">> ELSE <<>>)
            \o (IF price.price_range = None THEN <<"price_range">> ELSE <<>>)
            \o (IF contexts = <<>> THEN <<"usage_context">> ELSE <<>>)
            \o (IF feature.features = <<>> THEN <<"feature_preferences">> ELSE <<>>)
    IN  [product_type        |-> product.product_type,
         price_range         |-> price.price_range,
         usage_context       |-> contexts,
         feature_preferences |-> feature.features,
         original_query      |-> query,
         confidence_score    |-> (12 * SumSeq(confidences)) \div Len(confidences),
         is_complete         |-> missing_fields = <<>>,
         missing_fields      |-> missing_fields]

\* every ParsedQuery parse(query) can return
parse(query) ==
    {parse_in_order(query, contexts) :
        contexts \in Orderings(Range(extract_usage_context(query).contexts))}

\* ------------------------------------------------- ambiguity_detector.py
FEATURE_SUGGESTIONS(product_type) ==
    CASE product_type = "headphones" ->
            <<"noise-cancelling", "waterproof", "long battery life",
              "lightweight", "wireless", "premium sound">>
      [] product_type = "earbuds" ->
            <<"waterproof", "noise-cancelling", "wireless charging",
              "long battery", "transparent mode", "active noise">>
      [] product_type = "speakers" ->
            <<"portable", "waterproof", "long battery", "bass boost",
              "wireless", "360 audio">>
      [] product_type = "laptop" ->
            <<"gaming", "lightweight", "long battery", "fast processor",
              "high resolution display", "touchscreen">>
      [] OTHER -> <<"high quality", "affordable", "durable">>

USAGE_SUGGESTIONS ==
    <<"gym", "office", "home", "outdoor", "travel", "gaming", "professional">>

ClarificationRequest(field_name, field_label, current_value, options, question) ==
    [field_name |-> field_name, field_label |-> field_label,
     current_value |-> current_value, options |-> options, question |-> question]

\* detect_ambiguities: "Check for unknown product type"
ask_product_type(parsed_query) ==
    IF parsed_query.product_type = "unknown"
    THEN <<ClarificationRequest("product_type", "Product Type", None,
               Some(SelectSeq(ProductTypeEnum, LAMBDA p : p # "unknown")),
               "What type of product are you looking for?")>>
    ELSE <<>>

\* mutant of ask_price_range: asks for the budget whether or not one was parsed
ask_price_range_Always(parsed_query) ==
    <<ClarificationRequest("price_range", "Budget", None, None,
          "What is your budget range (in rupees)?")>>

\* detect_ambiguities: "Check for missing price range"
ask_price_range(parsed_query) ==
    IF parsed_query.price_range = None
    THEN <<ClarificationRequest("price_range", "Budget", None, None,
               "What is your budget range (in rupees)?")>>
    ELSE <<>>

\* mutant of ask_usage_context: asks unless at least two contexts were parsed
ask_usage_context_FewerThanTwo(parsed_query) ==
    IF Len(parsed_query.usage_context) < 2
    THEN <<ClarificationRequest("usage_context", "Usage Context", None,
               Some(USAGE_SUGGESTIONS),
               "Where will you primarily use this product?")>>
    ELSE <<>>

\* detect_ambiguities: "Check for missing usage context"
ask_usage_context(parsed_query) ==
    IF parsed_query.usage_context = <<>>
    THEN <<ClarificationRequest("usage_context", "Usage Context", None,
               Some(USAGE_SUGGESTIONS),
               "Where will you primarily use this product?")>>
    ELSE <<>>

\* detect_ambiguities: "Check for missing features"
ask_feature_preferences(parsed_query) ==
    IF parsed_query.feature_preferences = <<>>
    THEN <<ClarificationRequest("feature_preferences", "Features", None,
               Some(FEATURE_SUGGESTIONS(parsed_query.product_type)),
               "What features are important to you?")>>
    ELSE <<>>

\* mutant of ask_general: a confidence of exactly 0.65 also counts as low
ask_general_AtMost(parsed_query) ==
    IF parsed_query.confidence_score <= 780
    THEN <<ClarificationRequest("general", "Query Clarity",
               Some([label |-> "Confidence", score |-> parsed_query.confidence_score]),
               None,
               "Could you provide more details?")>>
    ELSE <<>>

\* detect_ambiguities: "Check for low confidence score" (0.65 is 780)
ask_general(parsed_query) ==
    IF parsed_query.confidence_score < 780
    THEN <<ClarificationRequest("general", "Query Clarity",
               Some([label |-> "Confidence", score |-> parsed_query.confidence_score]),
               None,
               "Could you provide more details?")>>
    ELSE <<>>

detect_ambiguities(parsed_query) ==
    ask_product_type(parsed_query)
    \o ask_price_range(parsed_query)
    \o ask_usage_context(parsed_query)
    \o ask_feature_preferences(parsed_query)
    \o ask_general(parsed_query)

is_ambiguous(parsed_query) == Len(detect_ambiguities(parsed_query)) > 0

\* ---------------------------------------------------------- validator.py
MINIMUM_BUDGET(product_type) ==
    CASE product_type = "headphones" -> 500
      [] product_type = "earbuds"    -> 1000
      [] product_type = "speakers"   -> 1500
      [] product_type = "microphone" -> 2000
      [] product_type = "camera"     -> 15000
      [] product_type = "laptop"     -> 30000
      [] product_type = "phone"      -> 10000
      [] product_type = "tablet"     -> 10000
      [] product_type = "watch"      -> 5000
      [] OTHER                       -> 500

MAXIMUM_BUDGET(product_type) ==
    CASE product_type = "headphones" -> 50000
      [] product_type = "earbuds"    -> 30000
      [] product_type = "speakers"   -> 100000
      [] product_type = "microphone" -> 50000
      [] product_type = "camera"     -> 500000
      [] product_type = "laptop"     -> 500000
      [] product_type = "phone"      -> 150000
      [] product_type = "tablet"     -> 100000
      [] product_type = "watch"      -> 50000
      [] OTHER                       -> 500000

\* returns (is_valid, error_messages); ratio = max_price / min_price > 10
validate_price_range(price_range) ==
    IF price_range = None THEN [ok |-> TRUE, errors |-> <<>>]
    ELSE LET pr == price_range[1]
         IN  IF pr.min_price < 0 \/ pr.max_price < 0
             THEN [ok |-> FALSE,
                   errors |-> <<[msg |-> "Price values cannot be negative"]>>]
             ELSE IF pr.max_price < pr.min_price
             THEN [ok |-> FALSE,
                   errors |-> <<[msg |-> "Maximum price must be >= minimum price"]>>]
             ELSE LET errors ==
                          IF pr.max_price > 0 /\ pr.min_price > 0
                                /\ pr.max_price > 10 * pr.min_price
                          THEN <<[msg |-> "Price range too wide",
                                  max_price |-> pr.max_price,
                                  min_price |-> pr.min_price]>>
                          ELSE <<>>
                  IN  [ok |-> Len(errors) = 0, errors |-> errors]

\* mutant of validate_against_product_type: the low-budget test reads min_price
validate_against_product_type_LowByMinPrice(product_type, price_range) ==
    IF price_range = None \/ product_type = "unknown"
    THEN [ok |-> TRUE, warnings |-> <<>>]
    ELSE LET pr == price_range[1]
             min_budget == MINIMUM_BUDGET(product_type)
             max_budget == MAXIMUM_BUDGET(product_type)
         IN  [ok |-> TRUE,
              warnings |->
                  (IF pr.min_price < 10 * min_budget
                   THEN <<[msg |-> "Budget may be too low", product |-> product_type,
                           bound |-> min_budget]>>
                   ELSE <<>>)
                  \o (IF pr.min_price > 10 * max_budget
                      THEN <<[msg |-> "Budget seems very high", product |-> product_type,
                              bound |-> max_budget]>>
                      ELSE <<>>)]

\* returns (is_valid, warnings); budgets are in currency units, prices in tenths
validate_against_product_type(product_type, price_range) ==
    IF price_range = None \/ product_type = "unknown"
    THEN [ok |-> TRUE, warnings |-> <<>>]
    ELSE LET pr == price_range[1]
             min_budget == MINIMUM_BUDGET(product_type)
             max_budget == MAXIMUM_BUDGET(product_type)
         IN  [ok |-> TRUE,
              warnings |->
                  (IF pr.max_price < 10 * min_budget
                   THEN <<[msg |-> "Budget may be too low", product |-> product_type,
                           bound |-> min_budget]>>
                   ELSE <<>>)
                  \o (IF pr.min_price > 10 * max_budget
                      THEN <<[msg |-> "Budget seems very high", product |-> product_type,
                              bound |-> max_budget]>>
                      ELSE <<>>)]

NormalizedResult(parsed_query, is_valid, validation_errors, clarifications_made) ==
    [parsed_query |-> parsed_query, clarifications_made |-> clarifications_made,
     is_valid |-> is_valid, validation_errors |-> validation_errors]

\* mutant of validate_query: the category-budget warnings are treated as errors
validate_query_WarningsAsErrors(parsed_query) ==
    LET price == validate_price_range(parsed_query.price_range)
        price_warnings ==
            validate_against_product_type(parsed_query.product_type,
                                          parsed_query.price_range).warnings
    IN  NormalizedResult(parsed_query,
                         price.ok /\ price_warnings = <<>>,
                         (IF ~price.ok THEN price.errors ELSE <<>>) \o price_warnings,
                         <<>>)

validate_query(parsed_query) ==
    LET price == validate_price_range(parsed_query.price_range)
        price_warnings ==
            validate_against_product_type(parsed_query.product_type,
                                          parsed_query.price_range).warnings
    IN  NormalizedResult(parsed_query,
                         price.ok,
                         IF ~price.ok THEN price.errors ELSE <<>>,
                         <<>>)

\* ------------------------------------------- validator.py: clarifier
\* The answers a user may give to each clarification question.
RESPONSE_CHOICES ==
    [product_type        |-> {"laptop", "sofa"},
     price_range         |-> {"75000", "7,500", "-5", "abc"},
     usage_context       |-> {"office", "beach"},
     feature_preferences |-> {"fast processor, lightweight"},
     general             |-> {"more"}]

ResponseKeys == DOMAIN RESPONSE_CHOICES

\* every dict of answers: a subset of the keys, each with one of its answers
ResponseMaps ==
    UNION {{m \in [K -> UNION {RESPONSE_CHOICES[k] : k \in ResponseKeys}] :
                \A k \in K : m[k] \in RESPONSE_CHOICES[k]} :
           K \in SUBSET ResponseKeys}

\* the user_responses argument: None, or a dict
UserResponses ==
    {[is_none |-> TRUE, items |-> <<>>]}
    \cup {[is_none |-> FALSE, items |-> m] : m \in ResponseMaps}

\* truth value of `user_responses` in a condition: None and {} are false
Truthy(user_responses) ==
    ~user_responses.is_none /\ DOMAIN user_responses.items # {}

\* `user_responses or {}`
OrEmpty(user_responses) ==
    IF Truthy(user_responses) THEN user_responses.items ELSE <<>>

\* response.replace(",", "")
RemoveCommas(response) ==
    CASE response = "7,500" -> "7500"
      [] response = "fast processor, lightweight" -> "fast processor lightweight"
      [] OTHER -> response

\* float(s): the number, or ValueError
float(s) ==
    CASE s = "75000" -> [exc |-> "none", value |-> 75000]
      [] s = "7500"  -> [exc |-> "none", value |-> 7500]
      [] s = "-5"    -> [exc |-> "none", value |-> 0 - 5]
      [] OTHER       -> [exc |-> "ValueError", value |-> 0]

\* mutant of SplitStrip: the pieces keep their surrounding whitespace
SplitStrip_NoStrip(response) ==
    CASE response = "fast processor, lightweight" -> <<"fast processor", " lightweight">>
      [] OTHER -> <<response>>

\* [f.strip() for f in response.split(",")]
SplitStrip(response) ==
    CASE response = "fast processor, lightweight" -> <<"fast processor", "lightweight">>
      [] OTHER -> <<response>>

\* mutant of CaughtByValueOrTypeError: the clause reads `except TypeError`
CaughtByTypeErrorOnly == {"TypeError"}

\* exceptions an `except (ValueError, TypeError)` clause catches; pydantic's
\* ValidationError derives from ValueError
CaughtByValueOrTypeError == {"ValueError", "TypeError", "ValidationError"}

\* mutant of apply_product_type: an accepted answer makes the query fully confident
apply_product_type_RaisesConfidence(query, response) ==
    IF response \in Range(ProductTypeEnum)
    THEN [query |-> [query EXCEPT !.product_type = response,
                                  !.confidence_score = 1200],
          exc |-> "none"]
    ELSE [query |-> query, exc |-> "none"]

\* mutant of apply_product_type: the answered field leaves missing_fields
apply_product_type_ClearsMissing(query, response) ==
    IF response \in Range(ProductTypeEnum)
    THEN [query |-> [query EXCEPT !.product_type = response,
                                  !.missing_fields =
                                      SelectSeq(@, LAMBDA f : f # "product_type")],
          exc |-> "none"]
    ELSE [query |-> query, exc |-> "none"]

\* _apply_response, branch field_name == "product_type"
apply_product_type(query, response) ==
    IF response \in Range(ProductTypeEnum)
    THEN [query |-> [query EXCEPT !.product_type = response], exc |-> "none"]
    ELSE [query |-> query, exc |-> "none"]

\* mutant of apply_price_range: the lower bound is the value itself
apply_price_range_NoLowerFactor(query, response) ==
    LET value == float(RemoveCommas(response))
        built == IF value.exc # "none" THEN [exc |-> value.exc, value |-> None]
                 ELSE PriceRange(10 * value.value, 10 * value.value)
    IN  IF built.exc = "none"
        THEN [query |-> [query EXCEPT !.price_range = built.value], exc |-> "none"]
        ELSE IF built.exc \in CaughtByValueOrTypeError
        THEN [query |-> query, exc |-> "none"]
        ELSE [query |-> query, exc |-> built.exc]

\* _apply_response, branch field_name == "price_range"
apply_price_range(query, response) ==
    LET value == float(RemoveCommas(response))
        built == IF value.exc # "none" THEN [exc |-> value.exc, value |-> None]
                 ELSE PriceRange(7 * value.value, 10 * value.value)
    IN  IF built.exc = "none"
        THEN [query |-> [query EXCEPT !.price_range = built.value], exc |-> "none"]
        ELSE IF built.exc \in CaughtByValueOrTypeError
        THEN [query |-> query, exc |-> "none"]
        ELSE [query |-> query, exc |-> built.exc]

\* mutant of apply_usage_context: the answer is compared with the enum members,
\* not with their values, and so never matches
apply_usage_context_ComparesMembers(query, response) ==
    [query |-> query, exc |-> "none"]

\* mutant of apply_usage_context: an unrecognised answer becomes the "unknown"
\* context instead of being ignored
apply_usage_context_CoercesUnknown(query, response) ==
    [query |-> [query EXCEPT !.usage_context =
                    <<IF response \in Range(UsageContextEnum) THEN response ELSE "unknown">>],
     exc |-> "none"]

\* _apply_response, branch field_name == "usage_context"
apply_usage_context(query, response) ==
    IF response \in Range(UsageContextEnum)
    THEN [query |-> [query EXCEPT !.usage_context = <<response>>], exc |-> "none"]
    ELSE [query |-> query, exc |-> "none"]

\* mutant of apply_feature_preferences: completeness is brought up to date
apply_feature_preferences_UpdatesCompleteness(query, response) ==
    LET missing == SelectSeq(query.missing_fields, LAMBDA f : f # "feature_preferences")
    IN  [query |-> [query EXCEPT !.feature_preferences = SplitStrip(response),
                                 !.missing_fields = missing,
                                 !.is_complete = (missing = <<>>)],
         exc |-> "none"]

\* _apply_response, branch field_name == "feature_preferences"
apply_feature_preferences(query, response) ==
    [query |-> [query EXCEPT !.feature_preferences = SplitStrip(response)],
     exc |-> "none"]

\* returns the updated query and the exception that leaves the method, if any
_apply_response(query, ambiguity, response) ==
    LET field_name == ambiguity.field_name
    IN  CASE field_name = "product_type"        -> apply_product_type(query, response)
          [] field_name = "price_range"         -> apply_price_range(query, response)
          [] field_name = "usage_context"       -> apply_usage_context(query, response)
          [] field_name = "feature_preferences" -> apply_feature_preferences(query, response)
          [] OTHER -> [query |-> query, exc |-> "none"]

\* mutant of clarify_step: a request is recorded only if its answer changed
\* the query
clarify_step_RecordsOnlyEffective(parsed_query, made, ambiguity, responses) ==
    IF ambiguity.field_name \in DOMAIN responses
    THEN LET applied == _apply_response(parsed_query, ambiguity,
                                        responses[ambiguity.field_name])
         IN  [query |-> applied.query,
              made  |-> IF applied.exc = "none" /\ applied.query # parsed_query
                        THEN Append(made, ambiguity) ELSE made,
              exc   |-> applied.exc]
    ELSE [query |-> parsed_query, made |-> made, exc |-> "none"]

\* one iteration of the loop over the detected ambiguities
clarify_step(parsed_query, made, ambiguity, responses) ==
    IF ambiguity.field_name \in DOMAIN responses
    THEN LET applied == _apply_response(parsed_query, ambiguity,
                                        responses[ambiguity.field_name])
         IN  [query |-> applied.query,
              made  |-> IF applied.exc = "none" THEN Append(made, ambiguity) ELSE made,
              exc   |-> applied.exc]
    ELSE [query |-> parsed_query, made |-> made, exc |-> "none"]

RECURSIVE clarify_loop(_, _, _, _)
clarify_loop(parsed_query, made, ambiguities, responses) ==
    IF ambiguities = <<>> THEN [query |-> parsed_query, made |-> made, exc |-> "none"]
    ELSE LET step == clarify_step(parsed_query, made, Head(ambiguities), responses)
         IN  IF step.exc # "none" THEN step
             ELSE clarify_loop(step.query, step.made, Tail(ambiguities), responses)

\* clarify_query as a function of its arguments (no exception leaving it)
clarify_query(parsed_query, user_responses) ==
    LET done == clarify_loop(parsed_query, <<>>, detect_ambiguities(parsed_query),
                             OrEmpty(user_responses))
    IN  [validate_query(done.query) EXCEPT !.clarifications_made = done.made]

\* --------------------------------------------------------- normalizer.py
\* mutant of NeedsClarifier: the supplied responses are not looked at
NeedsClarifier_IgnoresResponses(user_responses, parsed_query) ==
    is_ambiguous(parsed_query)

\* condition of step 2 of normalize
NeedsClarifier(user_responses, parsed_query) ==
    Truthy(user_responses) \/ is_ambiguous(parsed_query)

VARIABLES
    pc,                  \* position inside normalize / clarify_query
    query,               \* argument of normalize
    user_responses,      \* argument of normalize
    parsed,              \* Optional: the ParsedQuery object, mutated by the clarifier
    parsed0,             \* Optional: copy of the ParsedQuery as parse returned it
    ambiguities,         \* clarify_query: the detected ambiguities
    idx,                 \* clarify_query: position of the loop in ambiguities
    clarifications_made, \* clarify_query: the list being built
    result,              \* Optional: the NormalizedResult returned
    calls,               \* components invoked by this normalize call, in order
    raised,              \* exception propagating out of normalize, or "none"
    confs,               \* parse: product_conf, price_conf, context_conf, feature_conf
    log                  \* history of the calls made on this normalizer instance

\* Product_Query_Normalizer/app.py: the Streamlit session
VARIABLES
    session,             \* st.session_state: step, query, parsed_result, user_responses
    widgets,             \* values of the clarification widgets drawn by the last run
    app_pc,              \* "ready", or "rerun" after st.rerun()
    last_event,          \* what the last script run was started by
    last_normalize,      \* Optional: arguments of the latest normalize call of the app
    recorded_for         \* for each answer in user_responses, the query it was given for

\* Stock_alert/main.py and Stock_alert/app.py
VARIABLES
    stock_running,       \* main: the while loop has not reached its break
    stock_turns          \* one record per question asked: what came in, what was shown

\* Mental_Wellness_Bot/app.py: st.session_state
VARIABLES
    messages,            \* st.session_state.messages
    api_available,       \* st.session_state.api_available
    wellness_event       \* what the last script run was started by

\* product_query_normalize/state_manager.py
VARIABLES
    state,               \* a ConversationState object: history, missing_fields
    updates              \* the data arguments of the update calls made, in call order

normalizerVars == <<pc, query, user_responses, parsed, parsed0, ambiguities, idx,
                    clarifications_made, result, calls, raised, confs, log>>

appVars == <<session, widgets, app_pc, last_event, last_normalize, recorded_for>>

stockVars == <<stock_running, stock_turns>>

wellnessVars == <<messages, api_available, wellness_event>>

stateVars == <<state, updates>>

vars == <<normalizerVars, appVars, stockVars, wellnessVars, stateVars>>

\* the state of the programs other than the normalizer pipeline
OutsideNormalizer == <<appVars, stockVars, wellnessVars, stateVars>>

\* the state of the programs other than the Streamlit app
OutsideApp == <<normalizerVars, stockVars, wellnessVars, stateVars>>

\* the state of the programs other than Stock_alert
OutsideStock == <<normalizerVars, appVars, wellnessVars, stateVars>>

\* the state of the programs other than the Mental Wellness Bot
OutsideWellness == <<normalizerVars, appVars, stockVars, stateVars>>

\* the state of the programs other than the ConversationState object
OutsideState == <<normalizerVars, appVars, stockVars, wellnessVars>>

\* init_session_state, on the first run of the script
init_session_state ==
    /\ session = [step |-> "input", query |-> <<>>, parsed_result |-> None,
                  user_responses |-> <<>>]
    /\ widgets = <<>>
    /\ app_pc = "ready"
    /\ last_event = "none"
    /\ last_normalize = None
    /\ recorded_for = <<>>

\* Stock_alert: main has printed its banner and waits for the first input
stock_start ==
    /\ stock_running = TRUE
    /\ stock_turns = <<>>

\* Mental_Wellness_Bot/app.py, on the first run of the script
wellness_session_state ==
    /\ messages = <<>>
    /\ api_available = FALSE
    /\ wellness_event = "none"

\* ConversationState.__init__
ConversationState ==
    /\ state = [history |-> <<>>, missing_fields |-> <<>>]
    /\ updates = <<>>

Init ==
    /\ pc = "idle"
    /\ query = <<>>
    /\ user_responses = [is_none |-> TRUE, items |-> <<>>]
    /\ parsed = None
    /\ parsed0 = None
    /\ ambiguities = <<>>
    /\ idx = 1
    /\ clarifications_made = <<>>
    /\ result = None
    /\ calls = <<>>
    /\ raised = "none"
    /\ confs = None
    /\ log = <<>>
    /\ init_session_state
    /\ stock_start
    /\ wellness_session_state
    /\ ConversationState

\* a caller invokes normalize(query, user_responses)
Normalize ==
    /\ UNCHANGED OutsideNormalizer
    /\ pc = "idle"
    /\ pc' = "parse"
    /\ query' \in Queries
    /\ user_responses' \in UserResponses
    /\ UNCHANGED <<parsed, parsed0, ambiguities, idx, clarifications_made, result,
                   calls, raised, confs, log>>

\* Step 1: parsed = self.parser.parse(query)
Parse ==
    /\ UNCHANGED OutsideNormalizer
    /\ pc = "parse"
    /\ \E p \in parse(query) :
          /\ parsed' = Some(p)
          /\ parsed0' = Some(p)
    /\ confs' = Some([product |-> extract_product_type(query).confidence,
                       price   |-> extract_price_range(query).confidence,
                       context |-> extract_usage_context(query).confidence,
                       feature |-> extract_features(query).confidence])
    /\ calls' = Append(calls, "parse")
    /\ pc' = "step2"
    /\ UNCHANGED <<query, user_responses, ambiguities, idx, clarifications_made,
                   result, raised, log>>

\* mutant of EnterClarifier: the detector rewrites missing_fields of the query
EnterClarifier_DetectorUpdatesQuery ==
    /\ UNCHANGED OutsideNormalizer
    /\ pc = "step2"
    /\ NeedsClarifier(user_responses, parsed[1])
    /\ calls' = Append(calls, "clarify_query")
    /\ ambiguities' = detect_ambiguities(parsed[1])
    /\ parsed' = Some([parsed[1] EXCEPT !.missing_fields =
                          [i \in DOMAIN ambiguities' |-> ambiguities'[i].field_name]])
    /\ idx' = 1
    /\ clarifications_made' = <<>>
    /\ pc' = "loop"
    /\ UNCHANGED <<query, user_responses, parsed0, result, raised, confs, log>>

\* mutant of EnterClarifier: clarifications_made is not started afresh
EnterClarifier_KeepsClarifications ==
    /\ UNCHANGED OutsideNormalizer
    /\ pc = "step2"
    /\ NeedsClarifier(user_responses, parsed[1])
    /\ calls' = Append(calls, "clarify_query")
    /\ ambiguities' = detect_ambiguities(parsed[1])
    /\ idx' = 1
    /\ pc' = "loop"
    /\ UNCHANGED <<query, user_responses, parsed, parsed0, result, raised, confs, log,
                   clarifications_made>>

\* Step 2, first branch: self.clarifier.clarify_query(parsed, user_responses)
\* up to and including the detection of the ambiguities
EnterClarifier ==
    /\ UNCHANGED OutsideNormalizer
    /\ pc = "step2"
    /\ NeedsClarifier(user_responses, parsed[1])
    /\ calls' = Append(calls, "clarify_query")
    /\ ambiguities' = detect_ambiguities(parsed[1])
    /\ idx' = 1
    /\ clarifications_made' = <<>>
    /\ pc' = "loop"
    /\ UNCHANGED <<query, user_responses, parsed, parsed0, result, raised, confs, log>>

\* clarify_query: one iteration of `for ambiguity in ambiguities`
ClarifyStep ==
    /\ UNCHANGED OutsideNormalizer
    /\ pc = "loop"
    /\ idx <= Len(ambiguities)
    /\ LET step == clarify_step(parsed[1], clarifications_made, ambiguities[idx],
                                OrEmpty(user_responses))
       IN  IF step.exc = "none"
           THEN /\ parsed' = Some(step.query)
                /\ clarifications_made' = step.made
                /\ idx' = idx + 1
                /\ UNCHANGED <<pc, raised>>
           ELSE /\ pc' = "raised"
                /\ raised' = step.exc
                /\ UNCHANGED <<parsed, clarifications_made, idx>>
    /\ UNCHANGED <<query, user_responses, parsed0, ambiguities, result, calls, confs,
                   log>>

\* clarify_query: validate the clarified query and return
ClarifierValidate ==
    /\ UNCHANGED OutsideNormalizer
    /\ pc = "loop"
    /\ idx > Len(ambiguities)
    /\ calls' = Append(calls, "validate_query")
    /\ result' = Some([validate_query(parsed[1])
                          EXCEPT !.clarifications_made = clarifications_made])
    /\ pc' = "done"
    /\ UNCHANGED <<query, user_responses, parsed, parsed0, ambiguities, idx,
                   clarifications_made, raised, confs, log>>

\* Step 2, second branch: self.validator.validate_query(parsed)
ValidateDirectly ==
    /\ UNCHANGED OutsideNormalizer
    /\ pc = "step2"
    /\ ~NeedsClarifier(user_responses, parsed[1])
    /\ calls' = Append(calls, "validate_query")
    /\ result' = Some(validate_query(parsed[1]))
    /\ pc' = "done"
    /\ UNCHANGED <<query, user_responses, parsed, parsed0, ambiguities, idx,
                   clarifications_made, raised, confs, log>>

\* normalize has returned; the normalizer is ready for the next call
Return ==
    /\ UNCHANGED OutsideNormalizer
    /\ pc = "done"
    /\ pc' = "idle"
    /\ query' = <<>>
    /\ user_responses' = [is_none |-> TRUE, items |-> <<>>]
    /\ parsed' = None
    /\ parsed0' = None
    /\ ambiguities' = <<>>
    /\ idx' = 1
    /\ clarifications_made' = <<>>
    /\ result' = None
    /\ calls' = <<>>
    /\ raised' = "none"
    /\ confs' = None
    /\ UNCHANGED log

Next ==
    \/ Normalize
    \/ Parse
    \/ EnterClarifier
    \/ ClarifyStep
    \/ ClarifierValidate
    \/ ValidateDirectly
    \/ Return

Spec == Init /\ [][Next]_vars

\* ------------------------------------------- a sequence of normalize calls
\* The calls one ProductQueryNormalizer instance serves one after another.
\* Nothing is cleared between two calls: whatever a call left behind is still
\* there when the next one starts.
MaxCalls == 2

SeqQueries ==
    {<<"fitness">>, <<"laptop", "rs 100000">>, <<"Best headphones", "around 4k", "fitness">>}

SeqResponses ==
    {r \in UserResponses : r.is_none \/ DOMAIN r.items \in {{"price_range"}, {"general"}}}

\* a caller invokes normalize(query, user_responses) on the same instance
NormalizeSeq ==
    /\ UNCHANGED OutsideNormalizer
    /\ pc = "idle"
    /\ Len(log) < MaxCalls
    /\ query' \in SeqQueries
    /\ user_responses' \in SeqResponses
    /\ log' = Append(log, [query |-> query', user_responses |-> user_responses',
                           result |-> None])
    /\ calls' = <<>>
    /\ pc' = "parse"
    /\ UNCHANGED <<parsed, parsed0, ambiguities, idx, clarifications_made, result,
                   raised, confs>>

\* normalize returns its result to the caller
ReturnSeq ==
    /\ UNCHANGED OutsideNormalizer
    /\ pc = "done"
    /\ log' = [log EXCEPT ![Len(log)].result = result]
    /\ pc' = "idle"
    /\ UNCHANGED <<query, user_responses, parsed, parsed0, ambiguities, idx,
                   clarifications_made, result, calls, raised, confs>>

NextSeq ==
    \/ NormalizeSeq
    \/ Parse
    \/ EnterClarifier
    \/ ClarifyStep
    \/ ClarifierValidate
    \/ ValidateDirectly
    \/ ReturnSeq

SpecSeq == Init /\ [][NextSeq]_vars

\* ------------------------------------- Product_Query_Normalizer/app.py
\* normalize as a function of its arguments: every result it can return
normalize(text, responses) ==
    {IF NeedsClarifier(responses, parsed_query)
     THEN clarify_query(parsed_query, responses)
     ELSE validate_query(parsed_query) : parsed_query \in parse(text)}

\* get_ambiguities(query): every list it can return
get_ambiguities(text) == {detect_ambiguities(parsed_query) : parsed_query \in parse(text)}

\* texts typed into the query box (the empty text stands for a blank box) and
\* the example of the Examples tab that the fragments can spell
AppInputs ==
    {<<>>, <<"fitness">>, <<"laptop">>, <<"Best headphones", "around 4k", "fitness">>}

Examples == {<<"Best headphones", "around 4k", "for gym">>}

\* the value of a widget: the text of a select box or text input, the number
\* of a number input, the selection of a multiselect
WidgetValue(text, number, selected) ==
    [text |-> text, number |-> number, selected |-> selected]

\* `amb.options` is truthy
HasOptions(amb) == amb.options # None /\ amb.options[1] # <<>>

\* the widget the loop over the ambiguities draws for a request
WidgetKind(amb) ==
    IF amb.field_name = "product_type" /\ HasOptions(amb) THEN "selectbox"
    ELSE IF amb.field_name = "price_range" THEN "number_input"
    ELSE IF amb.field_name = "usage_context" /\ HasOptions(amb) THEN "selectbox"
    ELSE IF amb.field_name = "feature_preferences" /\ HasOptions(amb) THEN "multiselect"
    ELSE "text_input"

\* the value a widget shows when the user has not touched it
WidgetDefault(amb) ==
    CASE WidgetKind(amb) = "selectbox"    -> WidgetValue(amb.options[1][1], 0, <<>>)
      [] WidgetKind(amb) = "number_input" -> WidgetValue("", 0, <<>>)
      [] WidgetKind(amb) = "multiselect"  -> WidgetValue("", 0, <<>>)
      [] WidgetKind(amb) = "text_input"   -> WidgetValue("", 0, <<>>)

\* the values the user gives a widget
WidgetChoices(amb) ==
    CASE WidgetKind(amb) = "selectbox" ->
             {WidgetValue(amb.options[1][i], 0, <<>>) : i \in 1..2}
      [] WidgetKind(amb) = "number_input" ->
             {WidgetValue("", 0, <<>>), WidgetValue("", 75000, <<>>)}
      [] WidgetKind(amb) = "multiselect" ->
             {WidgetValue("", 0, <<>>), WidgetValue("", 0, <<amb.options[1][1]>>)}
      [] WidgetKind(amb) = "text_input" ->
             {WidgetValue("", 0, <<>>), WidgetValue("more", 0, <<>>)}

\* str(response) of a number input
str(number) ==
    CASE number = 75000 -> "75000"
      [] OTHER          -> "0"

\* ", ".join(selected), for at most one selected option
Join(selected) == IF selected = <<>> THEN "" ELSE selected[1]

\* whether the loop stores an answer for the request, and the answer it stores
Stores(amb, value) ==
    CASE WidgetKind(amb) = "selectbox"    -> TRUE
      [] WidgetKind(amb) = "number_input" -> value.number > 0
      [] WidgetKind(amb) = "multiselect"  -> value.selected # <<>>
      [] WidgetKind(amb) = "text_input"   -> value.text # ""

StoredAnswer(amb, value) ==
    CASE WidgetKind(amb) = "selectbox"    -> value.text
      [] WidgetKind(amb) = "number_input" -> str(value.number)
      [] WidgetKind(amb) = "multiselect"  -> Join(value.selected)
      [] WidgetKind(amb) = "text_input"   -> value.text

\* d[key] = value on a dict
Put(d, key, value) == [k \in DOMAIN d \cup {key} |-> IF k = key THEN value ELSE d[k]]

\* the requests whose widgets a run of the script draws
Drawn(ambs) == IF session.parsed_result # None THEN ambs ELSE <<>>

\* `for amb in ambiguities:` writing st.session_state.user_responses
RECURSIVE widget_loop(_, _, _)
widget_loop(responses, ambs, values) ==
    IF ambs = <<>> THEN responses
    ELSE LET amb == Head(ambs)
             value == values[amb.field_name]
         IN  widget_loop(IF Stores(amb, value)
                         THEN Put(responses, amb.field_name, StoredAnswer(amb, value))
                         ELSE responses,
                         Tail(ambs), values)

\* the query each answer was given for, after the loop has run
recorded_after(ambs, values) ==
    LET written == {ambs[i].field_name : i \in {j \in DOMAIN ambs :
                        Stores(ambs[j], values[ambs[j].field_name])}}
    IN  [field \in DOMAIN recorded_for \cup written |->
            IF field \in written THEN session.query ELSE recorded_for[field]]

\* the values the widgets of a rerun can show: what they showed before, if
\* the value is still on offer, or their default
RedrawnWidgets(ambs) ==
    {values \in [{ambs[i].field_name : i \in DOMAIN ambs} ->
                    UNION {WidgetChoices(ambs[i]) : i \in DOMAIN ambs}] :
        \A i \in DOMAIN ambs :
            LET field == ambs[i].field_name
            IN  \/ values[field] = WidgetDefault(ambs[i])
                \/ /\ field \in DOMAIN widgets
                   /\ values[field] = widgets[field]
                   /\ values[field] \in WidgetChoices(ambs[i])}

\* mutant of ParseQuery: a new query starts with no recorded answers
ParseQuery_ClearsResponses ==
    /\ app_pc = "ready"
    /\ \E query_input \in AppInputs :
          IF query_input # <<>>
          THEN /\ \E normalized \in normalize(query_input, [is_none |-> TRUE, items |-> <<>>]) :
                     session' = [session EXCEPT !.query = query_input,
                                                !.parsed_result = Some(normalized),
                                                !.user_responses = <<>>,
                                                !.step = "review"]
               /\ last_normalize' = Some([query |-> query_input,
                                          user_responses |-> [is_none |-> TRUE, items |-> <<>>]])
               /\ app_pc' = "rerun"
               /\ last_event' = "parse"
               /\ recorded_for' = <<>>
               /\ UNCHANGED widgets
          ELSE /\ last_event' = "blank"
               /\ UNCHANGED <<session, widgets, app_pc, last_normalize, recorded_for>>
    /\ UNCHANGED OutsideApp

\* the "Parse Query" button; a blank box only draws a warning and the run
\* goes on to redraw the page as it was
ParseQuery ==
    /\ app_pc = "ready"
    /\ \E query_input \in AppInputs :
          IF query_input # <<>>
          THEN /\ \E normalized \in normalize(query_input, [is_none |-> TRUE, items |-> <<>>]) :
                     session' = [session EXCEPT !.query = query_input,
                                                !.parsed_result = Some(normalized),
                                                !.step = "review"]
               /\ last_normalize' = Some([query |-> query_input,
                                          user_responses |-> [is_none |-> TRUE, items |-> <<>>]])
               /\ app_pc' = "rerun"
               /\ last_event' = "parse"
               /\ UNCHANGED <<widgets, recorded_for>>
          ELSE /\ \E ambs \in get_ambiguities(session.query) :
                     /\ session' = [session EXCEPT !.user_responses =
                                       widget_loop(@, Drawn(ambs), widgets)]
                     /\ recorded_for' = recorded_after(Drawn(ambs), widgets)
               /\ last_event' = "blank"
               /\ UNCHANGED <<widgets, app_pc, last_normalize>>
    /\ UNCHANGED OutsideApp

\* the run of the script that st.rerun() asks for: the page is drawn for the
\* query of the session and the loop stores what the widgets show
Rerun ==
    /\ app_pc = "rerun"
    /\ \E ambs \in get_ambiguities(session.query) :
          \E values \in RedrawnWidgets(Drawn(ambs)) :
              /\ widgets' = values
              /\ session' = [session EXCEPT !.user_responses =
                                widget_loop(@, Drawn(ambs), values)]
              /\ recorded_for' = recorded_after(Drawn(ambs), values)
    /\ app_pc' = "ready"
    /\ last_event' = "rerun"
    /\ UNCHANGED last_normalize
    /\ UNCHANGED OutsideApp

\* the user changes one of the widgets on the page, and the script runs
SetWidget ==
    /\ app_pc = "ready"
    /\ \E ambs \in get_ambiguities(session.query) :
          \E i \in DOMAIN Drawn(ambs) :
              \E value \in WidgetChoices(ambs[i]) :
                  /\ value # widgets[ambs[i].field_name]
                  /\ widgets' = [widgets EXCEPT ![ambs[i].field_name] = value]
                  /\ session' = [session EXCEPT !.user_responses =
                                    widget_loop(@, Drawn(ambs), widgets')]
                  /\ recorded_for' = recorded_after(Drawn(ambs), widgets')
    /\ last_event' = "widget"
    /\ UNCHANGED <<app_pc, last_normalize>>
    /\ UNCHANGED OutsideApp

\* the "Apply Clarifications" button, drawn below the widgets of a query that
\* has ambiguities
ApplyClarifications ==
    /\ app_pc = "ready"
    /\ \E ambs \in get_ambiguities(session.query) :
          /\ Drawn(ambs) # <<>>
          /\ LET responses == widget_loop(session.user_responses, Drawn(ambs), widgets)
                 passed == [is_none |-> FALSE, items |-> responses]
             IN  /\ \E clarified_result \in normalize(session.query, passed) :
                        session' = [session EXCEPT !.user_responses = responses,
                                                   !.parsed_result = Some(clarified_result)]
                 /\ last_normalize' = Some([query |-> session.query,
                                            user_responses |-> passed])
          /\ recorded_for' = recorded_after(Drawn(ambs), widgets)
    /\ app_pc' = "rerun"
    /\ last_event' = "apply"
    /\ UNCHANGED widgets
    /\ UNCHANGED OutsideApp

\* a "Try" button of the Examples tab; the page above it is drawn first
TryExample ==
    /\ app_pc = "ready"
    /\ \E text \in Examples :
          /\ \E ambs \in get_ambiguities(session.query) :
                /\ \E normalized \in normalize(text, [is_none |-> TRUE, items |-> <<>>]) :
                      session' = [session EXCEPT
                                     !.user_responses = widget_loop(@, Drawn(ambs), widgets),
                                     !.query = text,
                                     !.parsed_result = Some(normalized),
                                     !.step = "review"]
                /\ recorded_for' = recorded_after(Drawn(ambs), widgets)
          /\ last_normalize' = Some([query |-> text,
                                     user_responses |-> [is_none |-> TRUE, items |-> <<>>]])
    /\ app_pc' = "rerun"
    /\ last_event' = "try"
    /\ UNCHANGED widgets
    /\ UNCHANGED OutsideApp

NextApp ==
    \/ ParseQuery
    \/ Rerun
    \/ SetWidget
    \/ ApplyClarifications
    \/ TryExample

SpecApp == Init /\ [][NextApp]_vars

\* ------------------------------------------------------------ Stock_alert
\* the questions typed into the CLI prompt or the text area
StockInputs ==
    {"What is market risk?", "Should I invest in gold?", "recommend me a stock",
     "Exit", " "}

\* the texts the model may answer with
LlmTexts ==
    {"Market risk is the chance that prices fall.",
     "You Should Invest in index funds.",
     "the best stock is ACME"}

\* str.lower() on the texts above
StockLower(text) ==
    CASE text = "What is market risk?"     -> "what is market risk?"
      [] text = "Should I invest in gold?" -> "should i invest in gold?"
      [] text = "Exit"                     -> "exit"
      [] text = "Market risk is the chance that prices fall."
                                           -> "market risk is the chance that prices fall."
      [] text = "You Should Invest in index funds."
                                           -> "you should invest in index funds."
      [] text = "the best stock is ACME"   -> "the best stock is acme"
      [] OTHER                             -> text

\* str.strip() on the texts above
StockStrip(text) ==
    IF text = " " THEN "" ELSE text

\* output_filter.FORBIDDEN_TERMS
FORBIDDEN_TERMS ==
    {"you should invest", "i recommend buying", "best stock", "top fund to buy"}

\* intent_detector.BLOCK_PATTERNS
BLOCK_PATTERNS ==
    {"should i invest in", "recommend.*stock", "best mutual fund to buy",
     "which fund should i choose", "suggest.*investment"}

\* `term in text`: the forbidden terms that occur in a text, letter case respected
StockSubstrings(text) ==
    CASE text = "you should invest in index funds." -> {"you should invest"}
      [] text = "the best stock is ACME"            -> {"best stock"}
      [] text = "the best stock is acme"            -> {"best stock"}
      [] OTHER                                      -> {}

\* re.search(pattern, text): the block patterns that match a text
StockSearch(text) ==
    CASE text = "should i invest in gold?" -> {"should i invest in"}
      [] text = "recommend me a stock"     -> {"recommend.*stock"}
      [] OTHER                             -> {}

\* detect_intent
detect_intent(user_input) ==
    LET text == StockLower(user_input)
    IN  IF \E pattern \in BLOCK_PATTERNS : pattern \in StockSearch(text)
        THEN [intent |-> "investment_advice", risk_level |-> "high"]
        ELSE [intent |-> "education", risk_level |-> "low"]

\* the message of a blocked response
BLOCKED_NOTICE == "The system detected advisory language. Response blocked."

\* mutant of filter_output: the terms are looked for in the text as generated
filter_output_CaseSensitive(response) ==
    IF \E term \in FORBIDDEN_TERMS : term \in StockSubstrings(response)
    THEN [status |-> "blocked",
          message |-> [body |-> BLOCKED_NOTICE, disclaimer |-> FALSE]]
    ELSE [status |-> "safe",
          message |-> [body |-> response, disclaimer |-> TRUE]]

\* filter_output; response + DISCLAIMER is the pair (response, disclaimer appended)
filter_output(response) ==
    LET lower == StockLower(response)
    IN  IF \E term \in FORBIDDEN_TERMS : term \in StockSubstrings(lower)
        THEN [status |-> "blocked",
              message |-> [body |-> BLOCKED_NOTICE, disclaimer |-> FALSE]]
        ELSE [status |-> "safe",
              message |-> [body |-> response, disclaimer |-> TRUE]]

\* calculate_confidence, in hundredths
calculate_confidence(intent) ==
    IF intent.risk_level = "low" THEN 95 ELSE 40

\* what generate_explanation may do: raise, or return the content of the first
\* choice, which the API may leave empty (None)
LlmOutcomes ==
    {[raises |-> TRUE, content |-> None]}
        \cup {[raises |-> FALSE, content |-> c] :
                c \in {None} \cup {Some(t) : t \in LlmTexts}}

\* the try block runs to its end: neither generate_explanation nor
\* filter_output (None has no lower()) raises
Explained(outcome) ==
    ~outcome.raises /\ outcome.content # None

\* a fixed line of output
Line(kind, body) ==
    [kind |-> kind, body |-> body, disclaimer |-> FALSE, confidence |-> 0]

\* print(filtered["message"]) / st.write(filtered["message"])
ShownMessage(message) ==
    [kind |-> "message", body |-> message.body,
     disclaimer |-> message.disclaimer, confidence |-> 0]

\* the confidence line
ConfidenceLine(intent) ==
    [kind |-> "confidence", body |-> "Confidence Score", disclaimer |-> FALSE,
     confidence |-> calculate_confidence(intent)]

\* main: one iteration of the loop that does not break
main_turn(user_input, outcome) ==
    LET intent == detect_intent(user_input)
    IN  IF intent.intent = "investment_advice"
        THEN [frontend |-> "cli", user_input |-> user_input,
              intent |-> intent.intent, llm |-> None,
              shown |-> <<Line("refusal", "I cannot provide specific investment advice."),
                          Line("refusal", "Please consult a licensed financial advisor.")>>]
        ELSE [frontend |-> "cli", user_input |-> user_input,
              intent |-> intent.intent, llm |-> Some(outcome),
              shown |->
                IF ~Explained(outcome)
                THEN <<Line("error", "System error. Please try again.")>>
                ELSE LET filtered == filter_output(outcome.content[1])
                     IN  IF filtered.status = "blocked"
                         THEN <<ShownMessage(filtered.message)>>
                         ELSE <<Line("header", "AI Response:"),
                                ShownMessage(filtered.message),
                                ConfidenceLine(intent)>>]

\* app.py: the body of `if st.button("Generate Explanation")`
app_turn(user_input, outcome) ==
    IF StockStrip(user_input) = ""
    THEN [frontend |-> "app", user_input |-> user_input, intent |-> "none",
          llm |-> None,
          shown |-> <<Line("warning", "Please enter a question.")>>]
    ELSE LET intent == detect_intent(user_input)
         IN  IF intent.intent = "investment_advice"
             THEN [frontend |-> "app", user_input |-> user_input,
                   intent |-> intent.intent, llm |-> None,
                   shown |-> <<Line("refusal",
                       "I cannot provide specific investment advice. Please consult a licensed financial advisor.")>>]
             ELSE [frontend |-> "app", user_input |-> user_input,
                   intent |-> intent.intent, llm |-> Some(outcome),
                   shown |->
                     IF ~Explained(outcome)
                     THEN <<Line("error",
                               "System error. Please check API key or try again.")>>
                     ELSE LET filtered == filter_output(outcome.content[1])
                          IN  IF filtered.status = "blocked"
                              THEN <<ShownMessage(filtered.message)>>
                              ELSE <<Line("header", "AI Response"),
                                     ShownMessage(filtered.message),
                                     ConfidenceLine(intent)>>]

\* main: the user types a question at the prompt
CliTurn ==
    /\ UNCHANGED OutsideStock
    /\ stock_running
    /\ Len(stock_turns) < MaxTurns
    /\ \E user_input \in StockInputs, outcome \in LlmOutcomes :
        /\ StockLower(user_input) # "exit"
        /\ stock_turns' = Append(stock_turns, main_turn(user_input, outcome))
    /\ UNCHANGED stock_running

\* main: the user types exit, in any letter case
CliExit ==
    /\ UNCHANGED OutsideStock
    /\ stock_running
    /\ \E user_input \in StockInputs :
        /\ StockLower(user_input) = "exit"
        /\ stock_running' = FALSE
    /\ UNCHANGED stock_turns

\* app.py: the user presses Generate Explanation
AppGenerate ==
    /\ UNCHANGED OutsideStock
    /\ Len(stock_turns) < MaxTurns
    /\ \E user_input \in StockInputs, outcome \in LlmOutcomes :
        stock_turns' = Append(stock_turns, app_turn(user_input, outcome))
    /\ UNCHANGED stock_running

NextStock ==
    \/ CliTurn
    \/ CliExit
    \/ AppGenerate

SpecStock == Init /\ [][NextStock]_vars

\* ---------------------------------------------------- Mental_Wellness_Bot
\* what the user types into the chat box; an empty box starts nothing
WellnessInputs ==
    {"I feel sad today", "I am so HAPPY", "I am worried", "Too much pressure",
     "I am furious", "I am exhausted", "hello", "I want to die"}

\* the texts the model may answer with
WellnessTexts ==
    {"That sounds hard. I am here for you.", "You Have depression.",
     "it sounds like you have anxiety", ""}

\* the fallback templates of app.py
templates ==
    [happy    |-> "I'm glad you're feeling good! That's wonderful.",
     sad      |-> "It sounds like you're going through a tough time. That's okay.",
     anxious  |-> "Anxiety is challenging. Remember, it will pass.",
     stressed |-> "Stress is common. Try taking small breaks.",
     angry    |-> "Your anger is valid. Find healthy ways to express it.",
     tired    |-> "Rest is important. Take care of yourself.",
     neutral  |-> "I'm here to listen. Share what's on your mind."]

\* the message that replaces an unsafe response
NEUTRAL_MESSAGE == "I appreciate you sharing. How can I support you?"

\* str.lower() on the texts above
WellnessLower(text) ==
    CASE text = "I feel sad today"  -> "i feel sad today"
      [] text = "I am so HAPPY"     -> "i am so happy"
      [] text = "I am worried"      -> "i am worried"
      [] text = "Too much pressure" -> "too much pressure"
      [] text = "I am furious"      -> "i am furious"
      [] text = "I am exhausted"    -> "i am exhausted"
      [] text = "I want to die"     -> "i want to die"
      [] text = "That sounds hard. I am here for you."
            -> "that sounds hard. i am here for you."
      [] text = "You Have depression." -> "you have depression."
      [] text = "I'm glad you're feeling good! That's wonderful."
            -> "i'm glad you're feeling good! that's wonderful."
      [] text = "It sounds like you're going through a tough time. That's okay."
            -> "it sounds like you're going through a tough time. that's okay."
      [] text = "Anxiety is challenging. Remember, it will pass."
            -> "anxiety is challenging. remember, it will pass."
      [] text = "Stress is common. Try taking small breaks."
            -> "stress is common. try taking small breaks."
      [] text = "Your anger is valid. Find healthy ways to express it."
            -> "your anger is valid. find healthy ways to express it."
      [] text = "Rest is important. Take care of yourself."
            -> "rest is important. take care of yourself."
      [] text = "I'm here to listen. Share what's on your mind."
            -> "i'm here to listen. share what's on your mind."
      [] text = "I appreciate you sharing. How can I support you?"
            -> "i appreciate you sharing. how can i support you?"
      [] OTHER -> text

\* config.EMOTIONS, in dict order
EMOTIONS ==
    <<[emotion |-> "happy",    keywords |-> {"happy", "glad", "joyful", "great", "excited"}],
      [emotion |-> "sad",      keywords |-> {"sad", "depressed", "down", "unhappy"}],
      [emotion |-> "anxious",  keywords |-> {"anxious", "worried", "nervous", "panic", "scared"}],
      [emotion |-> "stressed", keywords |-> {"stressed", "overwhelmed", "pressure"}],
      [emotion |-> "angry",    keywords |-> {"angry", "mad", "furious", "rage"}],
      [emotion |-> "tired",    keywords |-> {"tired", "exhausted", "fatigue"}]>>

\* config.URGENT_KEYWORDS
URGENT_KEYWORDS == {"crisis", "emergency", "dangerous", "harm"}

\* config.CRISIS_KEYWORDS
CRISIS_KEYWORDS ==
    {"suicide", "self harm", "kill myself", "want to die", "end it",
     "hurt myself", "ending it", "can't take"}

\* config.BLOCKED_PHRASES
BLOCKED_PHRASES ==
    {"you have", "diagnosed", "i recommend therapy", "take this medication",
     "prescription"}

\* `kw in text`: the keywords and phrases of config.py that occur in a text,
\* letter case respected
WellnessSubstrings(text) ==
    CASE text = "i feel sad today"                -> {"sad"}
      [] text = "i am so happy"                   -> {"happy"}
      [] text = "i am worried"                    -> {"worried"}
      [] text = "too much pressure"               -> {"pressure"}
      [] text = "i am furious"                    -> {"furious"}
      [] text = "i am exhausted"                  -> {"exhausted"}
      [] text = "i want to die"                   -> {"want to die"}
      [] text = "I want to die"                   -> {"want to die"}
      [] text = "you have depression."            -> {"you have"}
      [] text = "it sounds like you have anxiety" -> {"you have"}
      [] text = "i'm glad you're feeling good! that's wonderful." -> {"glad"}
      [] text = "I'm glad you're feeling good! That's wonderful." -> {"glad"}
      [] OTHER                                    -> {}

\* analyze: the loop over EMOTIONS, from position i
RECURSIVE detect_emotion(_, _)
detect_emotion(msg_lower, i) ==
    IF i > Len(EMOTIONS) THEN "neutral"
    ELSE IF EMOTIONS[i].keywords \cap WellnessSubstrings(msg_lower) # {}
         THEN EMOTIONS[i].emotion
         ELSE detect_emotion(msg_lower, i + 1)

\* analyze
analyze(message) ==
    LET msg_lower == WellnessLower(message)
        is_crisis == CRISIS_KEYWORDS \cap WellnessSubstrings(msg_lower) # {}
    IN  [emotional_state |-> detect_emotion(msg_lower, 1),
         urgency |-> IF is_crisis THEN "high"
                     ELSE IF URGENT_KEYWORDS \cap WellnessSubstrings(msg_lower) # {}
                          THEN "medium" ELSE "low",
         is_crisis |-> is_crisis]

\* mutant of check_safe: the phrases are looked for in the response as written
check_safe_CaseSensitive(response) ==
    ~\E phrase \in BLOCKED_PHRASES : phrase \in WellnessSubstrings(response)

\* guardrails.check_safe
check_safe(response) ==
    LET response_lower == WellnessLower(response)
    IN  ~\E phrase \in BLOCKED_PHRASES : phrase \in WellnessSubstrings(response_lower)

\* what generate_response may return: None (no client, an API error, an empty
\* choice) or the content of the first choice
GeneratedResponses ==
    {None} \cup {Some(t) : t \in WellnessTexts}

\* `not response`
NoResponse(response) ==
    response = None \/ response[1] = ""

\* templates.get(emotional_state, templates["neutral"])
templates_get(emotional_state) ==
    IF emotional_state \in DOMAIN templates
    THEN templates[emotional_state] ELSE templates["neutral"]

\* the bot response stored for a message
bot_response(available, user_input, generated) ==
    LET analysis == analyze(user_input)
        response == IF available THEN generated ELSE None
        answered == IF NoResponse(response)
                    THEN templates_get(analysis.emotional_state)
                    ELSE response[1]
    IN  IF ~check_safe(answered) THEN NEUTRAL_MESSAGE ELSE answered

\* a script run started by a message in the chat box, up to its st.rerun()
Chat ==
    /\ UNCHANGED OutsideWellness
    /\ Len(messages) < MaxMessages
    /\ \E key_set \in BOOLEAN, user_input \in WellnessInputs,
          generated \in GeneratedResponses :
        LET available == api_available \/ key_set
        IN  /\ api_available' = available
            /\ messages' = Append(messages,
                   [user |-> user_input,
                    bot |-> bot_response(available, user_input, generated),
                    analysis |-> analyze(user_input)])
    /\ wellness_event' = "chat"

\* a script run started by the Clear Conversation button, up to its st.rerun()
ClearConversation ==
    /\ UNCHANGED OutsideWellness
    /\ \E key_set \in BOOLEAN : api_available' = (api_available \/ key_set)
    /\ messages' = <<>>
    /\ wellness_event' = "clear"

NextWellness ==
    \/ Chat
    \/ ClearConversation

SpecWellness == Init /\ [][NextWellness]_vars

\* ------------------------------------ product_query_normalize/state_manager.py
\* the dicts passed to update: with and without the key "missing_fields"
DataArgs ==
    {[product_type |-> "laptop"],
     [missing_fields |-> <<>>],
     [missing_fields |-> <<"budget">>],
     [product_type |-> "laptop", missing_fields |-> <<"budget", "features">>],
     [product_type |-> "phone", missing_fields |-> <<>>]}

\* data.get("missing_fields", [])
get_missing_fields(data) ==
    IF "missing_fields" \in DOMAIN data THEN data.missing_fields ELSE <<>>

\* mutant of update: the default of get is the list already held
update_KeepsMissingFields ==
    /\ UNCHANGED OutsideState
    /\ Len(updates) < MaxUpdates
    /\ \E data \in DataArgs :
        /\ state' = [history |-> Append(state.history, data),
                     missing_fields |->
                        IF "missing_fields" \in DOMAIN data
                        THEN data.missing_fields ELSE state.missing_fields]
        /\ updates' = Append(updates, data)

\* ConversationState.update
update ==
    /\ UNCHANGED OutsideState
    /\ Len(updates) < MaxUpdates
    /\ \E data \in DataArgs :
        /\ state' = [history |-> Append(state.history, data),
                     missing_fields |-> get_missing_fields(data)]
        /\ updates' = Append(updates, data)

\* ConversationState.needs_clarification
needs_clarification ==
    Len(state.missing_fields) > 0

NextState ==
    update

SpecState == Init /\ [][NextState]_vars

\* ======================================================== properties
TypeOK ==
    /\ pc \in {"idle", "parse", "step2", "loop", "done", "raised"}
    /\ query \in Queries
    /\ user_responses \in UserResponses
    /\ Len(parsed) <= 1 /\ Len(parsed0) <= 1 /\ Len(result) <= 1
    /\ idx \in 1..6

\* the fields the clarifier may fill
ClarifiableFields ==
    {"product_type", "price_range", "usage_context", "feature_preferences"}

\* the field of a parsed query is filled in (known / present / non-empty)
Filled(parsed_query, field) ==
    CASE field = "product_type"        -> parsed_query.product_type # "unknown"
      [] field = "price_range"         -> parsed_query.price_range # None
      [] field = "usage_context"       -> parsed_query.usage_context # <<>>
      [] field = "feature_preferences" -> parsed_query.feature_preferences # <<>>

\* nothing is missing from the parsed query and its confidence is at least 0.65
Unambiguous(parsed_query) ==
    /\ \A field \in ClarifiableFields : Filled(parsed_query, field)
    /\ parsed_query.confidence_score >= 780

\* the dict of responses the call was given is non-empty
ResponsesSupplied ==
    ~user_responses.is_none /\ DOMAIN user_responses.items # {}

Returned == pc = "done"

\* C1: normalize parses first; it then runs the clarifier exactly when a
\* non-empty responses map was supplied or the parsed query is ambiguous, and
\* otherwise returns what validate_query gives for the parsed query, with
\* clarifications_made empty.
C1_ClarifierExactlyWhenNeeded ==
    /\ calls # <<>> => calls[1] = "parse"
    /\ Returned =>
          IF ResponsesSupplied \/ ~Unambiguous(parsed0[1])
          THEN calls = <<"parse", "clarify_query", "validate_query">>
          ELSE /\ calls = <<"parse", "validate_query">>
               /\ result[1] = validate_query(parsed0[1])
               /\ result[1].clarifications_made = <<>>

\* C1 witness: a call that went straight to the validator
C1_Witness ==
    /\ Returned
    /\ calls = <<"parse", "validate_query">>
    /\ ~ResponsesSupplied
    /\ Unambiguous(parsed0[1])
    /\ result[1].clarifications_made = <<>>

\* C2 as stated: a query whose parse is unambiguous never enters the
\* clarification path, even when a non-empty responses map is supplied.
C2_UnambiguousNeverClarified ==
    (Returned /\ Unambiguous(parsed0[1])) => "clarify_query" \notin Range(calls)

\* C2 amended: for an unambiguous parse with a non-empty responses map the
\* clarifier is invoked but applies no response: the result is what
\* validate_query gives for the query as parsed, clarifications_made empty;
\* without responses the clarifier is not invoked.
C2_UnambiguousClarifierChangesNothing ==
    (Returned /\ Unambiguous(parsed0[1])) =>
        /\ ("clarify_query" \in Range(calls)) <=> ResponsesSupplied
        /\ result[1] = validate_query(parsed0[1])
        /\ result[1].clarifications_made = <<>>

\* C2 witness: an unambiguous query sent through the clarifier with an answer
\* that would have changed the budget
C2_Witness ==
    /\ Returned
    /\ Unambiguous(parsed0[1])
    /\ "clarify_query" \in Range(calls)
    /\ "price_range" \in DOMAIN user_responses.items
    /\ user_responses.items["price_range"] = "75000"
    /\ result[1].parsed_query = parsed0[1]

\* C3: responses are applied only against the ambiguities detected on the
\* query as parsed: a field that was filled in by the parser keeps its value
\* throughout clarify_query / normalize, whatever the responses map holds.
C3_FilledFieldsUntouched ==
    parsed # None =>
        \A field \in ClarifiableFields :
            Filled(parsed0[1], field) =>
                /\ parsed[1][field] = parsed0[1][field]
                /\ Returned => result[1].parsed_query[field] = parsed0[1][field]

\* C3 witness: a context was parsed but no budget, the user answers with
\* another valid context and with a budget; only the budget is taken
C3_Witness ==
    /\ Returned
    /\ Filled(parsed0[1], "usage_context")
    /\ "usage_context" \in DOMAIN user_responses.items
    /\ user_responses.items["usage_context"] = "office"
    /\ result[1].parsed_query.usage_context = <<"gym">>
    /\ ~Filled(parsed0[1], "price_range")
    /\ "price_range" \in DOMAIN user_responses.items
    /\ Filled(result[1].parsed_query, "price_range")

\* a price range is absent or has 0 <= min_price <= max_price
WellFormed(price_range) ==
    \/ price_range = None
    \/ /\ 0 <= price_range[1].min_price
       /\ price_range[1].min_price <= price_range[1].max_price

\* C4 as stated: a well-formed price range whose max/min ratio exceeds 10 only
\* warns: validate_price_range returns ok for every well-formed range, and
\* is_valid is false only for a negative bound or max < min.
C4_WideRangeOnlyWarns ==
    Returned =>
        (WellFormed(result[1].parsed_query.price_range) =>
            /\ validate_price_range(result[1].parsed_query.price_range).ok
            /\ result[1].is_valid)

C6_NoExceptionEscapes ==
    /\ raised = "none"
    /\ pc # "raised"
    /\ pc \in {"step2", "loop"} =>
          /\ parsed # None
          /\ parsed0[1].confidence_score >= 0 /\ parsed0[1].confidence_score <= 1200
          /\ WellFormed(parsed0[1].price_range)
    /\ pc = "loop" =>
          /\ idx <= Len(ambiguities) + 1
          /\ idx <= Len(ambiguities) =>
                clarify_step(parsed[1], clarifications_made, ambiguities[idx],
                             OrEmpty(user_responses)).exc = "none"
    /\ Returned =>
          /\ result # None
          /\ result[1].is_valid \in BOOLEAN
          /\ result[1].is_valid <=> (result[1].validation_errors = <<>>)

\* C6 witness: a call that returned although the budget answer was not a number
C6_Witness ==
    /\ Returned
    /\ ~Filled(parsed0[1], "price_range")
    /\ "price_range" \in DOMAIN user_responses.items
    /\ user_responses.items["price_range"] = "abc"
    /\ result # None

\* an answer the clarifier cannot interpret for the field
Malformed(field, response) ==
    CASE field = "product_type"  -> response \notin Range(ProductTypeEnum)
      [] field = "price_range"   -> float(RemoveCommas(response)).exc # "none"
      [] field = "usage_context" -> response \notin Range(UsageContextEnum)
      [] OTHER                   -> FALSE

\* the responses of the call without the answer for one field
ResponsesWithout(field) ==
    [is_none |-> FALSE,
     items |-> [k \in DOMAIN user_responses.items \ {field} |-> user_responses.items[k]]]

\* C7: a malformed answer (a product_type outside the enumeration, a
\* price_range that is not a number, a usage_context that is no known
\* category) is silently ignored: the field keeps the value parse gave it, and
\* the returned query, is_valid and validation_errors are those of the same
\* call without that answer.
C7_MalformedAnswerIgnored ==
    Returned =>
        \A field \in DOMAIN user_responses.items :
            Malformed(field, user_responses.items[field]) =>
                LET other == clarify_query(parsed0[1], ResponsesWithout(field))
                IN  /\ result[1].parsed_query[field] = parsed0[1][field]
                    /\ result[1].parsed_query = other.parsed_query
                    /\ result[1].is_valid = other.is_valid
                    /\ result[1].validation_errors = other.validation_errors

\* C7 witness: the context was asked for and answered with "beach"
C7_Witness ==
    /\ Returned
    /\ ~Filled(parsed0[1], "usage_context")
    /\ "usage_context" \in DOMAIN user_responses.items
    /\ user_responses.items["usage_context"] = "beach"
    /\ result[1].parsed_query.usage_context = <<>>
    /\ result[1].is_valid
    /\ result[1].validation_errors = <<>>

\* C8: when no price range was parsed, a price_range answer that parses as a
\* non-negative number v sets price_range to (0.7 x v, v); "75000" gives
\* (52500, 75000).
C8_BudgetAnswerSetsRange ==
    (Returned /\ parsed0[1].price_range = None
        /\ "price_range" \in DOMAIN user_responses.items) =>
        LET response == user_responses.items["price_range"]
            value == float(RemoveCommas(response))
        IN  /\ (value.exc = "none" /\ value.value >= 0) =>
                   result[1].parsed_query.price_range =
                       Some([min_price |-> 7 * value.value,
                             max_price |-> 10 * value.value])
            /\ response = "75000" =>
                   result[1].parsed_query.price_range =
                       Some([min_price |-> 525000, max_price |-> 750000])

\* C8 witness: the answer "75000" to the budget question
C8_Witness ==
    /\ Returned
    /\ parsed0[1].price_range = None
    /\ "price_range" \in DOMAIN user_responses.items
    /\ user_responses.items["price_range"] = "75000"
    /\ result[1].parsed_query.price_range =
           Some([min_price |-> 525000, max_price |-> 750000])

\* the requests of a list whose field name is among the given keys, in order
AnsweredOf(requests, keys) ==
    SelectSeq(requests, LAMBDA request : request.field_name \in keys)

\* C9: clarifications_made of the result of clarify_query is, in detection
\* order, exactly the requests detected on the query as parsed whose
\* field_name is a key of the responses map; it is empty without responses.
C9_ClarificationsMadeAreTheAnswered ==
    (Returned /\ "clarify_query" \in Range(calls)) =>
        /\ result[1].clarifications_made =
               AnsweredOf(detect_ambiguities(parsed0[1]),
                          IF user_responses.is_none THEN {}
                          ELSE DOMAIN user_responses.items)
        /\ ~ResponsesSupplied => result[1].clarifications_made = <<>>

\* C9 witness: two requests answered (one of them with an unusable answer),
\* at least one request left unanswered
C9_Witness ==
    /\ Returned
    /\ Len(result[1].clarifications_made) = 2
    /\ Len(detect_ambiguities(parsed0[1])) > 2
    /\ "price_range" \in DOMAIN user_responses.items
    /\ user_responses.items["price_range"] = "abc"
    /\ result[1].clarifications_made[1].field_name = "price_range"

\* C10: category-budget warnings never invalidate a result and never reach
\* validation_errors: is_valid and validation_errors of a returned result are
\* those validate_query gives for the same query under any other product type.
C10_BudgetWarningsNotSurfaced ==
    Returned =>
        LET parsed_query == result[1].parsed_query
            warnings == validate_against_product_type(parsed_query.product_type,
                                                      parsed_query.price_range).warnings
        IN  /\ \A i \in DOMAIN warnings : warnings[i] \notin Range(result[1].validation_errors)
            /\ \A product_type \in Range(ProductTypeEnum) :
                  LET other == validate_query([parsed_query EXCEPT
                                                  !.product_type = product_type])
                  IN  /\ other.is_valid = result[1].is_valid
                      /\ other.validation_errors = result[1].validation_errors

\* C10 witness: a laptop with a budget below the laptop minimum is valid
C10_Witness ==
    /\ Returned
    /\ result[1].parsed_query.product_type = "laptop"
    /\ validate_against_product_type("laptop", result[1].parsed_query.price_range).warnings
           # <<>>
    /\ result[1].is_valid
    /\ result[1].validation_errors = <<>>

\* the warnings of the given kind among a list of warnings
WarningsOf(warnings, msg) == SelectSeq(warnings, LAMBDA w : w.msg = msg)

\* C11: validate_against_product_type answers ok = TRUE for every product type
\* and every price range a result can carry; it warns "budget too low" exactly
\* when max_price is below the category's minimum budget and "budget very
\* high" exactly when min_price is above the category's maximum budget; it
\* gives no warning when the range is absent or the type is unknown, and at
\* most one warning in all.
C11_BudgetWarningsExact ==
    Returned =>
        \A product_type \in Range(ProductTypeEnum) :
            LET price_range == result[1].parsed_query.price_range
                checked == validate_against_product_type(product_type, price_range)
                low == WarningsOf(checked.warnings, "Budget may be too low")
                high == WarningsOf(checked.warnings, "Budget seems very high")
            IN  /\ checked.ok = TRUE
                /\ Len(checked.warnings) = Len(low) + Len(high)
                /\ Len(checked.warnings) <= 1
                /\ \A i \in DOMAIN checked.warnings :
                       checked.warnings[i].product = product_type
                /\ IF price_range = None \/ product_type = "unknown"
                   THEN checked.warnings = <<>>
                   ELSE /\ low # <<>> <=>
                              price_range[1].max_price < 10 * MINIMUM_BUDGET(product_type)
                        /\ high # <<>> <=>
                              price_range[1].min_price > 10 * MAXIMUM_BUDGET(product_type)

\* C11 witness: headphones with a budget above the headphones maximum draw the
\* "very high" warning alone, and none when the product type is unknown
C11_Witness ==
    /\ Returned
    /\ result[1].parsed_query.product_type = "headphones"
    /\ result[1].parsed_query.price_range # None
    /\ LET price_range == result[1].parsed_query.price_range
           checked == validate_against_product_type("headphones", price_range)
       IN  /\ Len(checked.warnings) = 1
           /\ checked.warnings[1].msg = "Budget seems very high"
           /\ price_range[1].min_price > 10 * MAXIMUM_BUDGET("headphones")
           /\ validate_against_product_type("unknown", price_range).warnings = <<>>

\* a normalize call has parsed its query
Parsed == pc \in {"step2", "loop", "done"}

\* the numeric price mentions of a query, in text order: one per fragment that
\* a price pattern matches, each with the number it names
PriceMentions(text) ==
    LET matched(f) == UNION {PRICE_MATCHES(Lower(f))[p] : p \in 1..5}
        mentioning == SelectSeq(text, LAMBDA f : matched(f) # {})
    IN  [i \in DOMAIN mentioning |-> CHOOSE v \in matched(mentioning[i]) : TRUE]

\* price_range is (smallest, largest) of the values, in tenths
SpansValues(price_range, values) ==
    /\ price_range # None
    /\ \E lo, hi \in values :
          /\ price_range[1] = [min_price |-> 10 * lo, max_price |-> 10 * hi]
          /\ \A v \in values : lo <= v /\ v <= hi

\* C12 as stated: two or more price mentions, distinct or not, give
\* min = smallest and max = largest mentioned value with price confidence 0.85.
C12_TwoMentionsSpan ==
    Parsed /\ Len(PriceMentions(query)) >= 2 =>
        /\ SpansValues(parsed0[1].price_range, Range(PriceMentions(query)))
        /\ confs[1].price = 85

\* C12 amended: two or more distinct mentioned values give min = smallest and
\* max = largest value with price confidence 0.85, whatever the order of the
\* mentions in the text.
C12_TwoDistinctValuesSpan ==
    Parsed /\ Cardinality(Range(PriceMentions(query))) >= 2 =>
        /\ SpansValues(parsed0[1].price_range, Range(PriceMentions(query)))
        /\ confs[1].price = 85

\* C12 witness: the larger value is mentioned before the smaller one
C12_Witness ==
    /\ Parsed
    /\ Len(PriceMentions(query)) = 2
    /\ PriceMentions(query)[1] > PriceMentions(query)[2]
    /\ parsed0[1].price_range =
           Some([min_price |-> 10 * PriceMentions(query)[2],
                 max_price |-> 10 * PriceMentions(query)[1]])

\* C13: one price mention v gives the range (0.7 x v, v), so min = 0.7 x max,
\* with price confidence 0.75; no price mention gives no range and price
\* confidence 0.
C13_SingleMentionIsUpperBound ==
    Parsed =>
        LET mentions == PriceMentions(query)
        IN  /\ Len(mentions) = 1 =>
                  /\ parsed0[1].price_range =
                         Some([min_price |-> 7 * mentions[1],
                               max_price |-> 10 * mentions[1]])
                  /\ 10 * parsed0[1].price_range[1].min_price =
                         7 * parsed0[1].price_range[1].max_price
                  /\ confs[1].price = 75
            /\ Len(mentions) = 0 =>
                  /\ parsed0[1].price_range = None
                  /\ confs[1].price = 0

\* C13 witness: a query with exactly one price mention has been parsed
C13_Witness ==
    /\ Parsed
    /\ Len(PriceMentions(query)) = 1
    /\ parsed0[1].price_range # None
    /\ confs[1].price = 75

\* the product keyword table flattened in declaration order
RECURSIVE KeywordsInTableOrder(_)
KeywordsInTableOrder(c) ==
    IF c > Len(PRODUCT_KEYWORDS) THEN <<>>
    ELSE [k \in DOMAIN PRODUCT_KEYWORDS[c].keywords |->
             [product |-> PRODUCT_KEYWORDS[c].product,
              keyword |-> PRODUCT_KEYWORDS[c].keywords[k]]]
         \o KeywordsInTableOrder(c + 1)

\* the table entries whose keyword occurs in the lower-cased text, in table order
KeywordsFound(text) ==
    SelectSeq(KeywordsInTableOrder(1),
              LAMBDA e : \E i \in DOMAIN text : e.keyword \in SUBSTRINGS(Lower(text[i])))

\* C14: the product type is the category of the first keyword, in table order,
\* that occurs in the lower-cased query, whatever its place in the text; the
\* confidence is 0.95 when the query starts with (or is) that keyword, else
\* 0.85; with no keyword the result is (unknown, 0.3).
C14_FirstKeywordInTableOrderWins ==
    Parsed =>
        LET found == KeywordsFound(query)
        IN  IF found = <<>>
            THEN parsed0[1].product_type = "unknown" /\ confs[1].product = 30
            ELSE /\ parsed0[1].product_type = found[1].product
                 /\ confs[1].product =
                        IF found[1].keyword \in PREFIXES(Lower(query[1])) THEN 95 ELSE 85

\* C14 witness: the query starts with "laptop" and mentions headphones later;
\* headphones are declared first in the table and win, with confidence 0.85
C14_Witness ==
    /\ Parsed
    /\ Len(query) >= 2
    /\ query[1] = "laptop"
    /\ \E i \in 2..Len(query) : query[i] = "Best headphones"
    /\ parsed0[1].product_type = "headphones"
    /\ confs[1].product = 85

\* is_complete of a ParsedQuery says that no field is listed as missing
CompleteIffNothingMissing(parsed_query) ==
    parsed_query.is_complete <=> parsed_query.missing_fields = <<>>

\* C15: is_complete is true exactly when missing_fields is empty, for the
\* ParsedQuery parse produces, for the one the clarifier is working on, and for
\* the parsed_query of every returned result.
C15_CompleteIffNothingMissing ==
    /\ parsed0 # None => CompleteIffNothingMissing(parsed0[1])
    /\ parsed # None => CompleteIffNothingMissing(parsed[1])
    /\ Returned => CompleteIffNothingMissing(result[1].parsed_query)

\* C15 witness: the one field parse listed as missing has been filled in by a
\* clarification, and a result was returned
C15_Witness ==
    /\ Returned
    /\ parsed0[1].missing_fields = <<"product_type">>
    /\ result[1].parsed_query.product_type # "unknown"
    /\ Len(result[1].clarifications_made) >= 1

\* C16: over any sequence of normalize calls on one instance, the result of a
\* call depends on its (query, responses) arguments alone: two calls with equal
\* arguments return equal results whatever calls came before them; and while a
\* call runs, the query and the responses map are those the caller passed.
C16_CallsIndependent ==
    /\ \A i, j \in DOMAIN log :
          /\ log[i].query = log[j].query
          /\ log[i].user_responses = log[j].user_responses
          /\ log[i].result # None
          /\ log[j].result # None
          => log[i].result = log[j].result
    /\ log # <<>> =>
          /\ query = log[Len(log)].query
          /\ user_responses = log[Len(log)].user_responses

\* C16 witness: the same call made twice, the first one having gone through the
\* clarifier and recorded a clarification
C16_Witness ==
    /\ Len(log) = 2
    /\ log[1].query = log[2].query
    /\ log[1].user_responses = log[2].user_responses
    /\ log[1].result # None
    /\ log[2].result # None
    /\ log[1].result[1].clarifications_made # <<>>
    /\ log[2].result = log[1].result

\* C17 as stated: "Best headphones around 4k for gym" normalizes to headphones
\* with product confidence >= 0.85, a price range of about (2800, 4000) (within
\* a tenth of either bound), a usage context containing gym, and is_valid.
C17_HeadphonesAround4kForGym ==
    /\ Returned
    /\ query = <<"Best headphones", "around 4k", "for gym">>
    /\ user_responses.is_none
    => /\ result[1].parsed_query.product_type = "headphones"
       /\ confs[1].product >= 85
       /\ result[1].parsed_query.price_range # None
       /\ LET price_range == result[1].parsed_query.price_range[1]
          IN  /\ 10 * price_range.min_price >= 9 * 28000
              /\ 10 * price_range.min_price <= 11 * 28000
              /\ 10 * price_range.max_price >= 9 * 40000
              /\ 10 * price_range.max_price <= 11 * 40000
       /\ "gym" \in Range(result[1].parsed_query.usage_context)
       /\ result[1].is_valid

\* the rules of the detector in their fixed order, by the field they ask about
DetectorRules ==
    <<"product_type", "price_range", "usage_context", "feature_preferences", "general">>

\* the condition of a rule holds for a parsed query
Triggered(rule, parsed_query) ==
    IF rule = "general" THEN parsed_query.confidence_score < 780
    ELSE ~Filled(parsed_query, rule)

\* the clarifier has just detected the ambiguities and applied no answer yet
Detected == pc = "loop" /\ idx = 1

\* C18: detect_ambiguities returns one request per triggered rule and nothing
\* else, in the order product_type, price_range, usage_context,
\* feature_preferences, general; each rule fires exactly when its own condition
\* holds (type unknown; price absent; contexts empty; features empty;
\* confidence < 0.65); so there are 0 to 5 requests with distinct field names,
\* and is_ambiguous is true exactly when there is a request.
C18_OneRequestPerTriggeredRule ==
    /\ Detected =>
          LET expected == SelectSeq(DetectorRules,
                                    LAMBDA rule : Triggered(rule, parsed0[1]))
          IN  /\ [i \in DOMAIN ambiguities |-> ambiguities[i].field_name] = expected
              /\ Len(ambiguities) <= 5
              /\ \A i, j \in DOMAIN ambiguities :
                    i # j => ambiguities[i].field_name # ambiguities[j].field_name
              /\ is_ambiguous(parsed0[1]) <=> ambiguities # <<>>
    /\ Returned /\ ~ResponsesSupplied =>
          ("clarify_query" \in Range(calls)
              <=> \E rule \in Range(DetectorRules) : Triggered(rule, parsed0[1]))

\* C18 witness: the confidence is exactly 0.65, so the general rule stays
\* silent while the product and price rules fire
C18_Witness ==
    /\ Detected
    /\ parsed0[1].confidence_score = 780
    /\ [i \in DOMAIN ambiguities |-> ambiguities[i].field_name]
           = <<"product_type", "price_range">>

DetectedScores ==
    <<confs[1].product>>
    \o (IF Filled(parsed0[1], "price_range") THEN <<confs[1].price>> ELSE <<>>)
    \o (IF Filled(parsed0[1], "usage_context") THEN <<confs[1].context>> ELSE <<>>)
    \o (IF Filled(parsed0[1], "feature_preferences") THEN <<confs[1].feature>> ELSE <<>>)

\* C20: confidence_score is the arithmetic mean of the sub-scores of the detected
\* fields only, the product score always among them (0.3 when the type is
\* unknown), and lies in [0, 1].  Sub-scores are in hundredths, the mean in
\* twelve-hundredths.
C20_ConfidenceIsMeanOfDetected ==
    Parsed =>
        /\ parsed0[1].confidence_score * Len(DetectedScores) = 12 * SumSeq(DetectedScores)
        /\ parsed0[1].confidence_score >= 0
        /\ parsed0[1].confidence_score <= 1200
        /\ parsed0[1].product_type = "unknown" => confs[1].product = 30

\* C20 witness: the type is unknown and only the price was detected, so the
\* mean is over two of the four sub-scores
C20_Witness ==
    /\ Parsed
    /\ parsed0[1].product_type = "unknown"
    /\ Len(DetectedScores) = 2
    /\ confs[1].price > 0
    /\ 2 * parsed0[1].confidence_score = 12 * (30 + confs[1].price)

\* the four clarifiable fields in the order parse examines them
FieldsInOrder ==
    <<"product_type", "price_range", "usage_context", "feature_preferences">>

\* C21: missing_fields of a parsed query holds exactly the names of the fields
\* left empty or unknown (product_type when unknown, price_range when absent,
\* usage_context when empty, feature_preferences when empty), each once, in
\* that order.
C21_MissingFieldsAreTheUnfilled ==
    Parsed =>
        /\ parsed0[1].missing_fields
              = SelectSeq(FieldsInOrder, LAMBDA field : ~Filled(parsed0[1], field))
        /\ \A i, j \in DOMAIN parsed0[1].missing_fields :
              i # j => parsed0[1].missing_fields[i] # parsed0[1].missing_fields[j]

\* C21 witness: a laptop for the gym, with neither a budget nor a feature
C21_Witness ==
    /\ Parsed
    /\ parsed0[1].product_type = "laptop"
    /\ parsed0[1].usage_context = <<"gym">>
    /\ parsed0[1].missing_fields = <<"price_range", "feature_preferences">>
    /\ ~parsed0[1].is_complete

\* the answer the caller supplied for a field, if any
Answered(field) == ResponsesSupplied /\ field \in DOMAIN user_responses.items

\* C22: when parse found no usage context and a usage_context answer is
\* supplied, the answer is accepted only if it is the value of a known usage
\* category and the context set then is the singleton of that category; any
\* other answer leaves usage_context empty.
C22_UsageAnswerAcceptedIfKnown ==
    Returned /\ ~Filled(parsed0[1], "usage_context") /\ Answered("usage_context") =>
        LET response == user_responses.items["usage_context"]
        IN  IF \E i \in DOMAIN UsageContextEnum : UsageContextEnum[i] = response
            THEN result[1].parsed_query.usage_context = <<response>>
            ELSE result[1].parsed_query.usage_context = <<>>

\* C22 witness: no context in the query, the answer "office" is taken
C22_Witness ==
    /\ Returned
    /\ parsed0[1].usage_context = <<>>
    /\ Answered("usage_context")
    /\ user_responses.items["usage_context"] = "office"
    /\ result[1].parsed_query.usage_context = <<"office">>

\* number of commas in an answer
CommaCount(response) ==
    CASE response = "fast processor, lightweight" -> 1
      [] response = "7,500" -> 1
      [] OTHER -> 0

\* C23: when parse found no feature and a feature_preferences answer is
\* supplied, the feature list becomes the pieces of the answer between its
\* commas, each trimmed of surrounding whitespace, in order: n commas give
\* n + 1 elements.
C23_FeatureAnswerSplitOnCommas ==
    Returned /\ ~Filled(parsed0[1], "feature_preferences")
             /\ Answered("feature_preferences") =>
        LET response == user_responses.items["feature_preferences"]
            features == result[1].parsed_query.feature_preferences
        IN  /\ Len(features) = CommaCount(response) + 1
            /\ response = "fast processor, lightweight" =>
                  features = <<"fast processor", "lightweight">>

\* C23 witness: the answer "fast processor, lightweight" gave two features
C23_Witness ==
    /\ Returned
    /\ parsed0[1].feature_preferences = <<>>
    /\ Answered("feature_preferences")
    /\ result[1].parsed_query.feature_preferences = <<"fast processor", "lightweight">>

\* C24: a parsed query is ambiguous exactly when it is not complete: the
\* requests of the four field rules name the missing fields, and the
\* low-confidence rule can fire only when the product type is unknown, since a
\* parse with a known product type has confidence at least 0.65.
C24_AmbiguousIffIncomplete ==
    /\ Parsed =>
          /\ is_ambiguous(parsed0[1]) <=> ~parsed0[1].is_complete
          /\ parsed0[1].product_type # "unknown" => parsed0[1].confidence_score >= 780
    /\ Detected =>
          LET names == [i \in DOMAIN ambiguities |-> ambiguities[i].field_name]
          IN  /\ SelectSeq(names, LAMBDA name : name # "general")
                    = parsed0[1].missing_fields
              /\ (\E i \in DOMAIN names : names[i] = "general")
                    => parsed0[1].product_type = "unknown"

\* C24 witness: an unknown product with low confidence draws the general
\* request after the requests for its missing fields
C24_Witness ==
    /\ Detected
    /\ parsed0[1].product_type = "unknown"
    /\ parsed0[1].confidence_score < 780
    /\ ~parsed0[1].is_complete
    /\ Len(ambiguities) = Len(parsed0[1].missing_fields) + 1
    /\ ambiguities[Len(ambiguities)].field_name = "general"

ValidAnswer(field, response) ==
    CASE field = "product_type" ->
             /\ \E i \in DOMAIN ProductTypeEnum : ProductTypeEnum[i] = response
             /\ response # "unknown"
      [] field = "price_range" -> response \in {"75000", "7,500"}
      [] field = "usage_context" ->
             \E i \in DOMAIN UsageContextEnum : UsageContextEnum[i] = response
      [] field = "feature_preferences" -> TRUE

\* every field parse left open got an answer the clarifier can use
AllAmbiguitiesAnswered ==
    \A field \in ClarifiableFields :
        ~Filled(parsed0[1], field) =>
            Answered(field) /\ ValidAnswer(field, user_responses.items[field])

\* C26: when every detected field ambiguity got a valid answer, detecting again
\* on the returned query asks about none of the four fields, and asks the
\* general low-confidence question exactly when the parsed confidence was below
\* 0.65: no clarification removes the low-confidence ambiguity.
C26_OnlyLowConfidenceRemains ==
    Returned /\ "clarify_query" \in Range(calls) /\ AllAmbiguitiesAnswered =>
        LET again == detect_ambiguities(result[1].parsed_query)
        IN  [i \in DOMAIN again |-> again[i].field_name]
               = IF parsed0[1].confidence_score < 780 THEN <<"general">> ELSE <<>>

\* C26 witness: three fields were open and all were answered; the query had
\* low confidence and the general question is still asked
C26_Witness ==
    /\ Returned
    /\ AllAmbiguitiesAnswered
    /\ Len(parsed0[1].missing_fields) >= 3
    /\ Len(result[1].clarifications_made) >= 3
    /\ parsed0[1].confidence_score < 780
    /\ \A field \in ClarifiableFields : Filled(result[1].parsed_query, field)
    /\ is_ambiguous(result[1].parsed_query)

HasForbiddenTerm(text) ==
    StockSubstrings(StockLower(text)) \cap FORBIDDEN_TERMS # {}

\* the turn called the LLM and got this text back
Generated(turn, text) ==
    /\ turn.llm # None
    /\ ~turn.llm[1].raises
    /\ turn.llm[1].content = Some(text)

\* the only thing a blocked response shows
OnlyBlockedNotice ==
    <<[kind |-> "message", body |-> BLOCKED_NOTICE, disclaimer |-> FALSE,
       confidence |-> 0]>>

\* C28: in the Stock_alert CLI loop and Streamlit app, generated text is shown
\* only for an input classified as education and only when it holds no
\* forbidden term in any letter case, and then with the disclaimer appended;
\* for an input classified as investment_advice the LLM is not called; a
\* blocked response shows the fixed blocked notice and nothing else
C28_GeneratedTextShownOnlyFiltered ==
    \A i \in 1..Len(stock_turns) :
        LET turn == stock_turns[i]
        IN  /\ \A j \in 1..Len(turn.shown) :
                  turn.shown[j].body \in LlmTexts
                      => /\ turn.intent = "education"
                         /\ Generated(turn, turn.shown[j].body)
                         /\ ~HasForbiddenTerm(turn.shown[j].body)
                         /\ turn.shown[j].disclaimer
            /\ turn.intent = "investment_advice" => turn.llm = None
            /\ \A text \in LlmTexts :
                  Generated(turn, text) /\ HasForbiddenTerm(text)
                      => turn.shown = OnlyBlockedNotice

\* a CLI turn shows a generated text with its disclaimer, and an app turn
\* blocks a text whose forbidden term is written in capitals
C28_Witness ==
    /\ Len(stock_turns) = 2
    /\ stock_turns[1].frontend = "cli"
    /\ \E j \in 1..Len(stock_turns[1].shown) :
          /\ stock_turns[1].shown[j].body = "Market risk is the chance that prices fall."
          /\ stock_turns[1].shown[j].disclaimer
    /\ stock_turns[2].frontend = "app"
    /\ Generated(stock_turns[2], "You Should Invest in index funds.")
    /\ stock_turns[2].shown = OnlyBlockedNotice

\* the text contains a blocked phrase, whatever its letter case
HasBlockedPhrase(text) ==
    WellnessSubstrings(WellnessLower(text)) \cap BLOCKED_PHRASES # {}

\* a step on the message list: Clear Conversation empties it, anything else
\* appends one message, whose bot response is free of blocked phrases
ClearedOrSafelyAppended ==
    /\ wellness_event' = "clear" => messages' = <<>>
    /\ wellness_event' # "clear" =>
          \/ messages' = messages
          \/ /\ Len(messages') = Len(messages) + 1
             /\ SubSeq(messages', 1, Len(messages)) = messages
             /\ ~HasBlockedPhrase(messages'[Len(messages')].bot)

\* C29: in the Mental Wellness Bot every bot response appended to the message
\* list contains no blocked phrase in any letter case, whatever the LLM
\* returns and whether or not the API is available; Clear Conversation
\* empties the list and messages are otherwise only appended
C29_StoredResponsesSafe ==
    [][ClearedOrSafelyAppended]_vars

\* with the API available, one message got the neutral message (its response
\* was unsafe: no template is replaced) and another kept the generated text
C29_Witness ==
    /\ api_available
    /\ Len(messages) = 2
    /\ messages[1].bot = NEUTRAL_MESSAGE
    /\ messages[2].bot = "That sounds hard. I am here for you."

\* the data of the most recent update has a non-empty "missing_fields"
LastUpdateHasMissingFields ==
    /\ updates # <<>>
    /\ "missing_fields" \in DOMAIN updates[Len(updates)]
    /\ updates[Len(updates)].missing_fields # <<>>

\* C30: after any sequence of update calls on a ConversationState, history is
\* the sequence of the data arguments in call order, and needs_clarification()
\* is true exactly when the data of the most recent update has a non-empty
\* "missing_fields"; before any update it is false
C30_HistoryAndClarificationFollowUpdates ==
    /\ state.history = updates
    /\ needs_clarification <=> LastUpdateHasMissingFields

\* an update with missing fields is followed by one without the key, and
\* needs_clarification() is false again
C30_Witness ==
    /\ Len(updates) = 3
    /\ "missing_fields" \in DOMAIN updates[2]
    /\ updates[2].missing_fields # <<>>
    /\ "missing_fields" \notin DOMAIN updates[3]
    /\ state.history = updates
    /\ ~needs_clarification

====
